---------------------------- MODULE Spec2Model ----------------------------
(***************************************************************************)
(* A model of the EVE market analyzer (src/analyzer/market_analyzer.py):   *)
(* the retrying fetch client esi_get, the category resolver                *)
(* discover_type_ids_for_target_market_groups with its ancestry walk       *)
(* is_under_target_root, the upsert store_market_history, the fetch loop   *)
(* collect_and_store_all_history as main() drives them, the name cache     *)
(* get_type_name, the feature engine compute_time_series_features with     *)
(* the classifiers find_buy_opportunities and (src/market_analyzer.py)     *)
(* split_buy_sell_opportunities, and the query load_latest_analyzed of     *)
(* src/backend/database.py.                                                *)
(*                                                                         *)
(* Each component has its own specification over the shared variables:     *)
(*   SpecFetch    one call of esi_get, one action per branch of its loop   *)
(*   SpecResolve  lines 189-235 of discovery over every bounded graph      *)
(*   SpecStore    arbitrary sequences of store_market_history calls        *)
(*   SpecCollect  one call of collect_and_store_all_history                *)
(*   SpecRun      main(): listing, details, resolution, history loop       *)
(*   SpecNames    arbitrary sequences of get_type_name calls               *)
(*   SpecMember   arbitrary sequences of is_under_target_root calls        *)
(*   SpecFeatures features and classification of every bounded table       *)
(*   SpecQuery    one call of load_latest_analyzed on a stored table       *)
(* A definition named ...Mutant is a faulty variant of the definition that *)
(* follows it; the properties below are checked to tell the two apart.     *)
(***************************************************************************)
EXTENDS Integers, Sequences, FiniteSets, TLC

VARIABLES
    \* ---- esi_get (one call) ----
    esi_pc,         \* "idle" | "loop" | "returned"
    attempt,        \* the loop variable of line 99
    esi_outcomes,   \* what the server answered to each request so far
    esi_sleeps,     \* the time.sleep() delays performed, in order
    esi_result,     \* the value returned (NoResult until then)
    \* ---- category resolver ----
    groups,         \* dict gid -> [name, parent_id, types] (line 164)
    group_order,    \* insertion order of the dict's keys
    root_ids,       \* line 190
    cache_is_target,\* line 200
    res_pc,         \* "idle" | "roots" | "scan" | "walk" | "returned"
    scan_idx,       \* position of the loop of line 219 in group_order
    walk_gid,       \* argument of the running is_under_target_root call
    current,        \* line 206
    seen,           \* line 205
    walk_steps,     \* number of loop-condition evaluations of line 207 in this walk
    type_ids,       \* line 217
    type_id_list,   \* the list returned by discovery
    \* ---- store ----
    table,          \* market_history: a set of rows
    last_written,   \* history: key -> the last entry a store call wrote for it
    last_call,      \* history: the arguments of the latest store call
    \* ---- run ----
    run_pc,         \* position of main()
    remote,         \* the remote category graph of this run
    page,           \* line 131
    group_ids,      \* line 130 / line 159
    detail_idx,     \* position of the loop of line 167 in group_ids
    \* ---- collect_and_store_all_history ----
    col_pc,         \* "idle" | "loop" | "returned"
    col_regions,    \* argument region_ids
    col_types,      \* argument type_ids
    col_count,      \* line 393
    attempted,      \* history: the (region, type) pairs requested, in order
    fetched,        \* history: per attempted pair, what the fetch gave and what was stored
    \* ---- traffic with the remote API ----
    wire,           \* history: the esi_get calls made and the pacing sleeps, in order
    \* ---- name cache ----
    type_names,     \* table type_names: type_id -> name (lines 272-277)
    name_calls,     \* history: the get_type_name calls and what each returned
    \* ---- analysis ----
    ana_pc,         \* "idle" | "loaded" | "features" | "buy" | "top" | "split" | "done"
    df,             \* the loaded history table, a list of rows (line 548)
    rolling_window, \* parameter of compute_time_series_features
    df_features,    \* line 553
    zscore_threshold, \* parameter of the classifier
    df_buy,         \* line 557; legacy line 234
    df_sell,        \* legacy line 235
    df_buy_top,     \* line 563
    \* ---- query of the web service ----
    qry_pc,         \* "idle" | "ready" | "returned"
    min_volume,     \* parameter of load_latest_analyzed
    limit,          \* parameter of load_latest_analyzed
    latest_out,     \* the records load_latest_analyzed returns
    \* ---- is_under_target_root called on its own ----
    queries         \* history: the calls made and what each returned

esi_vars == <<esi_pc, attempt, esi_outcomes, esi_sleeps, esi_result>>
res_vars == <<groups, group_order, root_ids, cache_is_target, res_pc, scan_idx,
              walk_gid, current, seen, walk_steps, type_ids, type_id_list>>
store_vars == <<table, last_written, last_call>>
run_vars == <<run_pc, remote, page, group_ids, detail_idx>>
col_vars == <<col_pc, col_regions, col_types, col_count, attempted, fetched>>
net_vars == <<wire>>
name_vars == <<type_names, name_calls>>
ana_vars == <<ana_pc, df, rolling_window, df_features, zscore_threshold,
              df_buy, df_sell, df_buy_top>>
qry_vars == <<qry_pc, min_volume, limit, latest_out>>
mem_vars == <<queries>>
off_vars == <<name_vars, ana_vars, qry_vars, mem_vars>>
vars == <<esi_vars, res_vars, store_vars, run_vars, col_vars, net_vars, off_vars>>

\* What an action of one component leaves alone.
not_esi == <<res_vars, store_vars, run_vars, col_vars, net_vars, off_vars>>
not_res == <<esi_vars, store_vars, run_vars, col_vars, net_vars, off_vars>>
not_name == <<esi_vars, res_vars, store_vars, run_vars, col_vars, ana_vars, qry_vars,
             mem_vars>>
not_mem == <<esi_vars, store_vars, run_vars, col_vars, net_vars, name_vars, ana_vars,
            qry_vars>>
not_ana == <<esi_vars, res_vars, store_vars, run_vars, col_vars, net_vars, name_vars,
            qry_vars, mem_vars>>

\* Python's None, for integer-valued fields (every modelled id and value is >= 0).
None == -1

EmptyMap == [x \in {} |-> None]

-----------------------------------------------------------------------------
(***************************************************************************)
(* Configuration (lines 60-85)                                             *)
(***************************************************************************)
MAX_RETRIES == 3

\* MAX_TYPES is 2000 in the source; the model scales it down so that the
\* truncation of line 230 happens within the bounded graphs.
MAX_TYPES == 2

\* REQUEST_SLEEP_SECONDS (line 82) is 0.25 s; the model counts milliseconds.
REQUEST_SLEEP_MILLIS == 250

JITA_REGION_ID == 10000002
REGION_IDS == <<JITA_REGION_ID>>

TARGET_MARKET_GROUP_ROOT_NAMES ==
    {"Ship Equipment", "Ship and Module Modifications", "Ammunition & Charges"}

-----------------------------------------------------------------------------
(***************************************************************************)
(* esi_get (lines 92-119)                                                  *)
(***************************************************************************)
\* The statuses of line 107.
RETRY_STATUSES == {420, 429, 500, 502, 503, 504}

\* What one requests.get can do: raise, or answer with a status.
Statuses == RETRY_STATUSES \cup {200, 403, 404}
ExcOutcome == [exc |-> TRUE, status |-> 0]
HttpOutcome(s) == [exc |-> FALSE, status |-> s]

NoResult == [is_none |-> TRUE, status |-> 0]
Response(s) == [is_none |-> FALSE, status |-> s]

\* Fault: 404 taken for a transient status.
IsRetryableMutant(s) == s \in RETRY_STATUSES \cup {404}
\* line 107
IsRetryable(s) == s \in RETRY_STATUSES

\* Fault: the delay after an exception does not grow.
ExceptionDelayMutant(n) == 2
\* line 104
ExceptionDelay(n) == 2 * n

\* Fault: a constant backoff.
StatusDelayMutant(n) == 5
\* line 109
StatusDelay(n) == 5 * n

\* Fault: one attempt too many.
LastAttemptMutant(n) == n = MAX_RETRIES + 1
\* line 99: range(1, MAX_RETRIES + 1) is exhausted after attempt MAX_RETRIES
LastAttempt(n) == n = MAX_RETRIES

\* `continue` (lines 105, 110): the next iteration, or lines 118-119 when the
\* range is exhausted.
Continue ==
    /\ attempt' = attempt + 1
    /\ IF LastAttempt(attempt)
       THEN esi_pc' = "returned" /\ esi_result' = NoResult
       ELSE esi_pc' = "loop" /\ esi_result' = esi_result

\* lines 100-105: requests.get raises
EsiException ==
    /\ UNCHANGED not_esi
    /\ esi_pc = "loop"
    /\ esi_outcomes' = Append(esi_outcomes, ExcOutcome)
    /\ esi_sleeps' = Append(esi_sleeps, ExceptionDelay(attempt))
    /\ Continue

\* lines 107-110: a retryable status
EsiRetryable ==
    /\ UNCHANGED not_esi
    /\ esi_pc = "loop"
    /\ \E s \in Statuses :
         /\ IsRetryable(s)
         /\ esi_outcomes' = Append(esi_outcomes, HttpOutcome(s))
    /\ esi_sleeps' = Append(esi_sleeps, StatusDelay(attempt))
    /\ Continue

\* lines 112-114: any other status but 200
EsiDefinitive ==
    /\ UNCHANGED not_esi
    /\ esi_pc = "loop"
    /\ \E s \in Statuses :
         /\ ~IsRetryable(s)
         /\ s # 200
         /\ esi_outcomes' = Append(esi_outcomes, HttpOutcome(s))
    /\ esi_result' = NoResult
    /\ esi_pc' = "returned"
    /\ UNCHANGED <<attempt, esi_sleeps>>

\* line 116: status 200
EsiSuccess ==
    /\ UNCHANGED not_esi
    /\ esi_pc = "loop"
    /\ esi_outcomes' = Append(esi_outcomes, HttpOutcome(200))
    /\ esi_result' = Response(200)
    /\ esi_pc' = "returned"
    /\ UNCHANGED <<attempt, esi_sleeps>>

EsiIdle ==
    /\ esi_pc = "idle"
    /\ attempt = 1
    /\ esi_outcomes = <<>>
    /\ esi_sleeps = <<>>
    /\ esi_result = NoResult

EsiCalled ==
    /\ esi_pc = "loop"
    /\ attempt = 1
    /\ esi_outcomes = <<>>
    /\ esi_sleeps = <<>>
    /\ esi_result = NoResult

\* What the callers of esi_get leave on the wire.  A call is recorded by its
\* endpoint, its argument and whether it returned a response (its last
\* request was answered 200) or None; a listing response also by its chunk
\* and its X-Pages header.  The backoff sleeps of lines 104 and 109 happen
\* inside a call; a pacing sleep is a time.sleep() of the caller.
Called(kind, arg, ok) ==
    [kind |-> kind, arg |-> arg, ok |-> ok, chunk |-> <<>>, x_pages |-> None]
Listed(p, chunk, x_pages) ==
    [kind |-> "list", arg |-> p, ok |-> TRUE, chunk |-> chunk, x_pages |-> x_pages]
Slept(millis) ==
    [kind |-> "sleep", arg |-> millis, ok |-> TRUE, chunk |-> <<>>, x_pages |-> None]

NetIdle == wire = <<>>

NameIdle == type_names = EmptyMap /\ name_calls = <<>>

-----------------------------------------------------------------------------
(***************************************************************************)
(* Category resolver: lines 189-235 of                                     *)
(* discover_type_ids_for_target_market_groups                              *)
(***************************************************************************)
\* Number of categories of a bounded graph.
MaxGroups == 3

\* The ids of a loaded graph of n categories.
LoadedIds(n) == 100..(99 + n)

\* A parent id that no loaded category carries.
UnloadedId == 100 + MaxGroups

GroupNames == {"Ammunition & Charges", "Minerals"}

\* The list of item ids the remote assigns to a category that has any.
RemoteTypes(g) ==
    CASE g = 100 -> <<36, 35>>
      [] g = 101 -> <<34, 35>>
      [] OTHER   -> <<g - 65, 34>>

\* What a loaded category may carry as its item list: the two lowest ids may
\* carry none, the others carry their items.
TypeChoices(g) == IF g <= 101 THEN {<<>>, RemoteTypes(g)} ELSE {RemoteTypes(g)}

Range(f) == {f[i] : i \in DOMAIN f}

\* sorted(list(S)) of line 226
RECURSIVE Sorted(_)
Sorted(S) ==
    IF S = {} THEN <<>>
    ELSE LET m == CHOOSE x \in S : \A y \in S : x <= y
         IN <<m>> \o Sorted(S \ {m})

\* ascending order of the keys: the order in which a listing in id order
\* inserts them into the dict
KeyOrder(g) == Sorted(DOMAIN g)

\* Fault: no cut at MAX_TYPES.
CapMutant(list) == list
\* lines 230-231
Cap(list) ==
    IF Len(list) > MAX_TYPES THEN SubSeq(list, 1, MAX_TYPES) ELSE list

\* Fault: roots taken by a null parent instead of by name.
RootIdsMutant(g) == {gid \in DOMAIN g : g[gid].parent_id = None}
\* lines 190-193
RootIds(g) == {gid \in DOMAIN g : g[gid].name \in TARGET_MARKET_GROUP_ROOT_NAMES}

\* lines 189-200 with a root found
FindRoots ==
    /\ UNCHANGED not_res
    /\ res_pc = "roots"
    /\ RootIds(groups) # {}
    /\ root_ids' = RootIds(groups)
    /\ cache_is_target' = EmptyMap
    /\ type_ids' = {}
    /\ scan_idx' = 1
    /\ res_pc' = "scan"
    /\ UNCHANGED <<groups, group_order, walk_gid, current, seen, walk_steps,
                   type_id_list>>

\* lines 189-198 with no root: return []
NoRoots ==
    /\ UNCHANGED not_res
    /\ res_pc = "roots"
    /\ RootIds(groups) = {}
    /\ root_ids' = {}
    /\ type_id_list' = <<>>
    /\ res_pc' = "returned"
    /\ UNCHANGED <<groups, group_order, cache_is_target, scan_idx, walk_gid,
                   current, seen, walk_steps, type_ids>>

ScanGid == group_order[scan_idx]

\* lines 219-221: a category without items is skipped
ScanSkip ==
    /\ UNCHANGED not_res
    /\ res_pc = "scan"
    /\ scan_idx <= Len(group_order)
    /\ groups[ScanGid].types = <<>>
    /\ scan_idx' = scan_idx + 1
    /\ UNCHANGED <<groups, group_order, root_ids, cache_is_target, res_pc,
                   walk_gid, current, seen, walk_steps, type_ids, type_id_list>>

\* The return of is_under_target_root(walk_gid) into lines 222-224, and the
\* next iteration of the loop of line 219.
ReturnToScan(member) ==
    /\ type_ids' = IF member THEN type_ids \cup Range(groups[walk_gid].types)
                   ELSE type_ids
    /\ scan_idx' = scan_idx + 1
    /\ res_pc' = "scan"

\* line 222 calling lines 203-206
ScanQuery ==
    /\ UNCHANGED not_res
    /\ res_pc = "scan"
    /\ scan_idx <= Len(group_order)
    /\ groups[ScanGid].types # <<>>
    /\ walk_gid' = ScanGid
    /\ IF ScanGid \in DOMAIN cache_is_target
       THEN /\ type_ids' = IF cache_is_target[ScanGid]
                           THEN type_ids \cup Range(groups[ScanGid].types)
                           ELSE type_ids
            /\ scan_idx' = scan_idx + 1
            /\ UNCHANGED <<res_pc, current, seen, walk_steps>>
       ELSE /\ seen' = {}
            /\ current' = ScanGid
            /\ walk_steps' = 0
            /\ res_pc' = "walk"
            /\ UNCHANGED <<type_ids, scan_idx>>
    /\ UNCHANGED <<groups, group_order, root_ids, cache_is_target, type_id_list>>

\* Fault: no cycle guard.
LoopCondMutant == current # None /\ current \in DOMAIN groups
\* line 207
LoopCond == current # None /\ current \in DOMAIN groups /\ current \notin seen

\* lines 207-211: the current category is a root
WalkRoot ==
    /\ UNCHANGED not_res
    /\ res_pc = "walk"
    /\ LoopCond
    /\ current \in root_ids
    /\ seen' = seen \cup {current}
    /\ walk_steps' = walk_steps + 1
    /\ cache_is_target' = (walk_gid :> TRUE) @@ cache_is_target
    /\ ReturnToScan(TRUE)
    /\ UNCHANGED <<groups, group_order, root_ids, walk_gid, current, type_id_list>>

\* Fault: the walk never climbs.
ParentOfMutant(gid) == None
\* line 212
ParentOf(gid) == groups[gid].parent_id

\* lines 207-209, 212-213: up to the parent
WalkUp ==
    /\ UNCHANGED not_res
    /\ res_pc = "walk"
    /\ LoopCond
    /\ current \notin root_ids
    /\ seen' = seen \cup {current}
    /\ walk_steps' = walk_steps + 1
    /\ current' = ParentOf(current)
    /\ UNCHANGED <<groups, group_order, root_ids, cache_is_target, res_pc,
                   scan_idx, walk_gid, type_ids, type_id_list>>

\* Fault: a walk that ends at an id the graph does not hold reports a member.
WalkExitMutant ==
    /\ UNCHANGED not_res
    /\ res_pc = "walk"
    /\ ~LoopCond
    /\ cache_is_target' =
          (walk_gid :> (current # None /\ current \notin DOMAIN groups))
             @@ cache_is_target
    /\ ReturnToScan(current # None /\ current \notin DOMAIN groups)
    /\ UNCHANGED <<groups, group_order, root_ids, walk_gid, current, seen,
                   walk_steps, type_id_list>>

\* lines 207, 214-215: the loop ends without a root
WalkExit ==
    /\ UNCHANGED not_res
    /\ res_pc = "walk"
    /\ ~LoopCond
    /\ cache_is_target' = (walk_gid :> FALSE) @@ cache_is_target
    /\ ReturnToScan(FALSE)
    /\ UNCHANGED <<groups, group_order, root_ids, walk_gid, current, seen,
                   walk_steps, type_id_list>>

\* lines 226-235
ScanDone ==
    /\ UNCHANGED not_res
    /\ res_pc = "scan"
    /\ scan_idx > Len(group_order)
    /\ type_id_list' = Cap(Sorted(type_ids))
    /\ res_pc' = "returned"
    /\ UNCHANGED <<groups, group_order, root_ids, cache_is_target, scan_idx,
                   walk_gid, current, seen, walk_steps, type_ids>>

\* The resolver's variables before line 189 is reached with the dict `g`.
ResolveAt(g, pc) ==
    /\ groups = g
    /\ group_order = KeyOrder(g)
    /\ root_ids = {}
    /\ cache_is_target = EmptyMap
    /\ res_pc = pc
    /\ scan_idx = 1
    /\ walk_gid = None
    /\ current = None
    /\ seen = {}
    /\ walk_steps = 0
    /\ type_ids = {}
    /\ type_id_list = <<>>
    /\ queries = <<>>

-----------------------------------------------------------------------------
(***************************************************************************)
(* Persistent store: market_history (lines 255-312)                        *)
(***************************************************************************)
\* Longest history batch of one store call.
MaxBatch == 2

\* Dates are compared for equality only; two of them tell a write to the
\* same key from a write to another key.
Dates == {1, 2}

\* A history entry is a dict: a function from the keys it carries.  The
\* remote schema always carries "date" (the column is NOT NULL, line 260).
FullEntry(d) ==
    [date |-> d, order_count |-> 3, volume |-> 50,
     highest |-> 12, lowest |-> 8, average |-> 10]
PartialEntry(d) == [date |-> d, average |-> 20]
HistoryEntries == {FullEntry(d) : d \in Dates} \cup {PartialEntry(d) : d \in Dates}

Batches == UNION {[1..n -> HistoryEntries] : n \in 0..MaxBatch}

\* dict.get(k) of lines 295-300
Get(entry, k) == IF k \in DOMAIN entry THEN entry[k] ELSE None

\* the parameter tuple of line 308
Row(region_id, type_id, entry) ==
    [region_id   |-> region_id,
     type_id     |-> type_id,
     date        |-> Get(entry, "date"),
     order_count |-> Get(entry, "order_count"),
     volume      |-> Get(entry, "volume"),
     highest     |-> Get(entry, "highest"),
     lowest      |-> Get(entry, "lowest"),
     average     |-> Get(entry, "average")]

\* PRIMARY KEY (region_id, type_id, date), line 266
KeyOf(row) == <<row.region_id, row.type_id, row.date>>

\* Fault: a plain insert that keeps the row in conflict.
InsertPlainMutant(T, row) == T \cup {row}

\* Fault: an upsert that adds the volume to the stored one.
InsertAccumulateMutant(T, row) ==
    {x \in T : KeyOf(x) # KeyOf(row)} \cup
    {IF \E x \in T : KeyOf(x) = KeyOf(row)
     THEN [row EXCEPT !.volume =
             row.volume + (CHOOSE x \in T : KeyOf(x) = KeyOf(row)).volume]
     ELSE row}

\* INSERT OR REPLACE (lines 302-309): the rows in conflict on the primary
\* key are deleted, then the row is inserted.
InsertOrReplace(T, row) == {x \in T : KeyOf(x) # KeyOf(row)} \cup {row}

\* the loop of lines 294-309 from entry i on, then the commit of line 311
RECURSIVE StoreFrom(_, _, _, _, _)
StoreFrom(T, region_id, type_id, history, i) ==
    IF i > Len(history) THEN T
    ELSE StoreFrom(InsertOrReplace(T, Row(region_id, type_id, history[i])),
                   region_id, type_id, history, i + 1)

\* store_market_history (lines 284-312) as a function of the table
store_market_history(T, region_id, type_id, history) ==
    StoreFrom(T, region_id, type_id, history, 1)

\* History variable: per key, the entry most recently written for it.
WrittenAfter(lw, region_id, type_id, history) ==
    LET ds == {history[i].date : i \in DOMAIN history}
        last(d) == CHOOSE i \in DOMAIN history :
                      /\ history[i].date = d
                      /\ \A j \in DOMAIN history : history[j].date = d => j <= i
        new == {<<region_id, type_id, d>> : d \in ds}
    IN [k \in DOMAIN lw \cup new |->
          IF k \in new THEN history[last(k[3])] ELSE lw[k]]

NoCall == [region_id |-> None, type_id |-> None, history |-> <<>>]

\* The effect of one store_market_history call on the store.
DoStore(region_id, type_id, history) ==
    /\ table' = store_market_history(table, region_id, type_id, history)
    /\ last_written' = WrittenAfter(last_written, region_id, type_id, history)
    /\ last_call' = [region_id |-> region_id, type_id |-> type_id,
                     history |-> history]

StoreRegions == {JITA_REGION_ID}
StoreTypes == {34, 35}

StoreCall ==
    /\ \E r \in StoreRegions, t \in StoreTypes, h \in Batches : DoStore(r, t, h)
    /\ UNCHANGED <<esi_vars, res_vars, run_vars, col_vars, net_vars, off_vars>>

StoreIdle ==
    /\ table = {}
    /\ last_written = EmptyMap
    /\ last_call = NoCall

-----------------------------------------------------------------------------
(***************************************************************************)
(* collect_and_store_all_history (lines 386-406) with                      *)
(* fetch_market_history (lines 371-383)                                    *)
(***************************************************************************)
\* The non-empty history lists the remote answers with.
CollectBatches == {<<FullEntry(1)>>, <<PartialEntry(1), FullEntry(2)>>}

\* line 390
TotalRequests == Len(col_regions) * Len(col_types)

\* The pair the nested loops of lines 394-395 reach after col_count pairs.
NextPair == <<col_regions[(col_count \div Len(col_types)) + 1],
              col_types[(col_count % Len(col_types)) + 1]>>

\* Fault: the loops are left at the first pair without data.
PcAfterMutant(kind) == IF kind = "list" THEN "loop" ELSE "returned"
\* lines 399-404: whatever the fetch gave, the loops go on
PcAfter(kind) == "loop"

\* lines 396-398, and 404: one more pair requested, then the pacing sleep
Attempt(kind, history) ==
    /\ col_count' = col_count + 1
    /\ wire' = wire \o <<Called("history", NextPair[2], kind # "none"),
                          Slept(REQUEST_SLEEP_MILLIS)>>
    /\ attempted' = Append(attempted, NextPair)
    /\ fetched' = Append(fetched, [kind |-> kind, history |-> history])
    /\ col_pc' = PcAfter(kind)
    /\ UNCHANGED <<col_regions, col_types>>

InLoop == col_pc = "loop" /\ col_count < TotalRequests

\* lines 376-378: esi_get gave no response; lines 402-404
CollectNoResponse ==
    /\ InLoop
    /\ Attempt("none", <<>>)
    /\ UNCHANGED <<esi_vars, res_vars, store_vars, run_vars, off_vars>>

\* Fault: a payload that is not a list is handed to the store as one entry.
CollectMalformedMutant ==
    /\ InLoop
    /\ Attempt("malformed", <<>>)
    /\ DoStore(NextPair[1], NextPair[2], <<PartialEntry(1)>>)
    /\ UNCHANGED <<esi_vars, res_vars, run_vars, off_vars>>

\* lines 379-382: the payload is not a list; lines 402-404
CollectMalformed ==
    /\ InLoop
    /\ Attempt("malformed", <<>>)
    /\ UNCHANGED <<esi_vars, res_vars, store_vars, run_vars, off_vars>>

\* line 383 returning [], falsy at line 399; lines 402-404
CollectEmpty ==
    /\ InLoop
    /\ Attempt("empty", <<>>)
    /\ UNCHANGED <<esi_vars, res_vars, store_vars, run_vars, off_vars>>

\* line 400
StoreFetched(region_id, type_id, history) ==
    DoStore(region_id, type_id, history)

\* line 383 returning a non-empty list; lines 399-401, 404
CollectStore ==
    /\ InLoop
    /\ \E h \in CollectBatches :
         /\ Attempt("list", h)
         /\ StoreFetched(NextPair[1], NextPair[2], h)
    /\ UNCHANGED <<esi_vars, res_vars, run_vars, off_vars>>

\* line 406
CollectDone ==
    /\ col_pc = "loop"
    /\ col_count >= TotalRequests
    /\ col_pc' = "returned"
    /\ UNCHANGED <<col_regions, col_types, col_count, attempted, fetched>>
    /\ UNCHANGED <<esi_vars, res_vars, store_vars, run_vars, net_vars, off_vars>>

CollectAt(pc, regions, types) ==
    /\ col_pc = pc
    /\ col_regions = regions
    /\ col_types = types
    /\ col_count = 0
    /\ attempted = <<>>
    /\ fetched = <<>>

ColIdle == CollectAt("idle", <<>>, <<>>)

\* Argument lists of a call: without repeats.
CollectRegionLists == {<<JITA_REGION_ID>>, <<JITA_REGION_ID, JITA_REGION_ID + 1>>}
CollectTypeLists == {<<>>, <<34>>, <<34, 35>>, <<35, 34>>}

-----------------------------------------------------------------------------
(***************************************************************************)
(* main() (lines 525-544) driving fetch_all_market_group_ids (126-150),    *)
(* the detail loop of discovery (159-187), the resolver and the history    *)
(* loop.  Each esi_get call is taken by its result: a response or None.    *)
(***************************************************************************)
\* Ids per page of the remote listing.
PageSize == 2

Info(name, parent_id, types) ==
    [name |-> name, parent_id |-> parent_id, types |-> types]

\* Remote category graphs of a run.
ScenarioGraph ==
    (100 :> Info("Ammunition & Charges", None, <<>>)) @@
    (101 :> Info("Minerals", 100, <<34, 35>>))
ChainGraph ==
    (100 :> Info("Ammunition & Charges", None, RemoteTypes(100))) @@
    (101 :> Info("Minerals", 100, RemoteTypes(101))) @@
    (102 :> Info("Minerals", 101, RemoteTypes(102)))
NoRootGraph ==
    (100 :> Info("Minerals", None, RemoteTypes(100))) @@
    (101 :> Info("Minerals", 100, RemoteTypes(101)))
CycleGraph ==
    (100 :> Info("Ammunition & Charges", None, <<>>)) @@
    (101 :> Info("Minerals", 102, RemoteTypes(101))) @@
    (102 :> Info("Minerals", 101, RemoteTypes(102)))
NestedGraph ==
    (100 :> Info("Minerals", None, RemoteTypes(100))) @@
    (101 :> Info("Ammunition & Charges", 100, RemoteTypes(101))) @@
    (102 :> Info("Minerals", 101, RemoteTypes(102)))
RunGraphs == {ScenarioGraph, ChainGraph, NoRootGraph, CycleGraph, NestedGraph}

RemoteIds == Sorted(DOMAIN remote)
NumPages == (Len(RemoteIds) + PageSize - 1) \div PageSize

\* The chunk the remote lists on page p (empty past the last page).
RemotePage(p) ==
    LET lo == (p - 1) * PageSize + 1
        hi == IF p * PageSize < Len(RemoteIds) THEN p * PageSize ELSE Len(RemoteIds)
    IN IF lo > hi THEN <<>> ELSE SubSeq(RemoteIds, lo, hi)

\* Values of the X-Pages header of a listing response; None: no header.
XPagesChoices == {None} \cup (1..(NumPages + 1))

\* lines 149-150 and 159-166: the listing is over
ListingOver(ids) ==
    /\ group_ids' = ids
    /\ detail_idx' = 1
    /\ IF ids = <<>>
       THEN run_pc' = "aborted"      \* lines 160-162, then 537-539
       ELSE run_pc' = "details"
    /\ UNCHANGED <<remote, page>>

\* lines 134-136: no response for the page
ListFail ==
    /\ run_pc = "list"
    /\ wire' = Append(wire, Called("list", page, FALSE))
    /\ ListingOver(group_ids)
    /\ UNCHANGED <<esi_vars, res_vars, store_vars, col_vars, off_vars>>

\* lines 137-139: an empty chunk
ListEmpty ==
    /\ run_pc = "list"
    /\ RemotePage(page) = <<>>
    /\ \E x_pages \in XPagesChoices :
         wire' = Append(wire, Listed(page, <<>>, x_pages))
    /\ ListingOver(group_ids)
    /\ UNCHANGED <<esi_vars, res_vars, store_vars, col_vars, off_vars>>

\* Fault: the page after the last one is asked for as well.
MorePagesMutant(x_pages) == x_pages # None /\ page <= x_pages
\* lines 142-146: go on to the next page
MorePages(x_pages) == x_pages # None /\ page < x_pages

\* lines 140-146 ending the loop
ListLastPage ==
    /\ run_pc = "list"
    /\ RemotePage(page) # <<>>
    /\ \E x_pages \in XPagesChoices :
         /\ ~MorePages(x_pages)
         /\ wire' = Append(wire, Listed(page, RemotePage(page), x_pages))
         /\ ListingOver(group_ids \o RemotePage(page))
    /\ UNCHANGED <<esi_vars, res_vars, store_vars, col_vars, off_vars>>

\* lines 140-147 going on
ListNextPage ==
    /\ run_pc = "list"
    /\ RemotePage(page) # <<>>
    /\ \E x_pages \in XPagesChoices :
         /\ MorePages(x_pages)
         /\ wire' = Append(wire, Listed(page, RemotePage(page), x_pages))
    /\ group_ids' = group_ids \o RemotePage(page)
    /\ page' = page + 1
    /\ UNCHANGED <<run_pc, remote, detail_idx>>
    /\ UNCHANGED <<esi_vars, res_vars, store_vars, col_vars, off_vars>>

DetailGid == group_ids[detail_idx]

InDetails == run_pc = "details" /\ detail_idx <= Len(group_ids)

\* Fault: a failed detail fetch ends the loop over the listed ids.
DetailFailMutant ==
    /\ InDetails
    /\ wire' = Append(wire, Called("detail", DetailGid, FALSE))
    /\ detail_idx' = Len(group_ids) + 1
    /\ UNCHANGED <<run_pc, remote, page, group_ids>>
    /\ UNCHANGED <<esi_vars, res_vars, store_vars, col_vars, off_vars>>

\* lines 172-174: the detail fetch gave nothing
DetailFail ==
    /\ InDetails
    /\ wire' = Append(wire, Called("detail", DetailGid, FALSE))
    /\ detail_idx' = detail_idx + 1
    /\ UNCHANGED <<run_pc, remote, page, group_ids>>
    /\ UNCHANGED <<esi_vars, res_vars, store_vars, col_vars, off_vars>>

\* lines 175-187
DetailLoad ==
    /\ InDetails
    /\ wire' = wire \o <<Called("detail", DetailGid, TRUE),
                          Slept(REQUEST_SLEEP_MILLIS \div 2)>>
    /\ groups' = (DetailGid :> remote[DetailGid]) @@ groups
    /\ group_order' = IF DetailGid \in DOMAIN groups THEN group_order
                      ELSE Append(group_order, DetailGid)
    /\ detail_idx' = detail_idx + 1
    /\ UNCHANGED <<root_ids, cache_is_target, res_pc, scan_idx, walk_gid,
                   current, seen, walk_steps, type_ids, type_id_list>>
    /\ UNCHANGED <<run_pc, remote, page, group_ids>>
    /\ UNCHANGED <<esi_vars, store_vars, col_vars, off_vars>>

\* the loop of line 167 is over: on to line 189
DetailsDone ==
    /\ run_pc = "details"
    /\ detail_idx > Len(group_ids)
    /\ run_pc' = "resolve"
    /\ res_pc' = "roots"
    /\ UNCHANGED <<groups, group_order, root_ids, cache_is_target, scan_idx,
                   walk_gid, current, seen, walk_steps, type_ids, type_id_list>>
    /\ UNCHANGED <<remote, page, group_ids, detail_idx>>
    /\ UNCHANGED <<esi_vars, store_vars, col_vars, net_vars, off_vars>>

\* line 537
Aborts(list) == list = <<>>

\* lines 536-539: no types, the run ends
MainAbort ==
    /\ run_pc = "resolve"
    /\ res_pc = "returned"
    /\ Aborts(type_id_list)
    /\ run_pc' = "aborted"
    /\ UNCHANGED <<remote, page, group_ids, detail_idx>>
    /\ UNCHANGED <<esi_vars, res_vars, store_vars, col_vars, net_vars, off_vars>>

\* lines 541-544 and 390-393: the history loop is entered
MainCollect ==
    /\ run_pc = "resolve"
    /\ res_pc = "returned"
    /\ ~Aborts(type_id_list)
    /\ run_pc' = "collect"
    /\ col_pc' = "loop"
    /\ col_regions' = REGION_IDS
    /\ col_types' = type_id_list
    /\ UNCHANGED <<col_count, attempted, fetched>>
    /\ UNCHANGED <<remote, page, group_ids, detail_idx>>
    /\ UNCHANGED <<esi_vars, res_vars, store_vars, net_vars, off_vars>>

RunAt(pc, g) ==
    /\ run_pc = pc
    /\ remote = g
    /\ page = 1
    /\ group_ids = <<>>
    /\ detail_idx = 1

RunIdle == RunAt("idle", EmptyMap)

-----------------------------------------------------------------------------
(***************************************************************************)
(* Feature engine: compute_time_series_features (lines 413-441; the same   *)
(* code in src/market_analyzer.py, lines 186-214).                          *)
(*                                                                         *)
(* Prices are integers and the statistics are computed exactly: a mean is  *)
(* a fraction, a standard deviation is held by its square (the variance),  *)
(* a z-score by its sign and its square.  A division keeps the IEEE cases  *)
(* of the float division of line 433: 0/0 is NaN, x/0 is +-inf.            *)
(***************************************************************************)
\* min_periods of lines 427 and 430
MIN_PERIODS == 5

RECURSIVE GCD(_, _)
GCD(a, b) == IF b = 0 THEN a ELSE GCD(b, a % b)

Abs(x) == IF x < 0 THEN -x ELSE x
Sign(x) == IF x < 0 THEN -1 ELSE IF x > 0 THEN 1 ELSE 0

\* NaN, pandas' null of a float column
NaN == [kind |-> "nan", sgn |-> 0, n |-> 0, d |-> 1]
\* +inf and -inf
Inf(s) == [kind |-> "inf", sgn |-> s, n |-> 1, d |-> 1]
\* the finite number of sign s and magnitude n/d (d > 0), in lowest terms
Fin(s, n, d) ==
    LET g == GCD(n, d)
    IN IF n = 0 THEN [kind |-> "fin", sgn |-> 0, n |-> 0, d |-> 1]
       ELSE [kind |-> "fin", sgn |-> s, n |-> n \div g, d |-> d \div g]
\* the fraction p/q, q > 0
Frac(p, q) == Fin(Sign(p), Abs(p), q)

IsNull(x) == x.kind = "nan"

\* the value of a nullable integer column as a float
Num(v) == IF v = None THEN NaN ELSE Frac(v, 1)

\* The rows of `group` (a date-ordered series) in the trailing window of
\* `window` rows ending at position i, restricted to non-null averages:
\* what Rolling.mean / Rolling.std aggregate at position i.
WindowIdx(group, window, i) ==
    {j \in DOMAIN group : j <= i /\ j > i - window /\ group[j].average # None}

RECURSIVE SumOver(_, _, _)
SumOver(group, idx, pow) ==
    IF idx = {} THEN 0
    ELSE LET j == CHOOSE j \in idx : TRUE
             v == group[j].average
         IN (IF pow = 2 THEN v * v ELSE v) + SumOver(group, idx \ {j}, pow)

\* Fault: the window must be full of rows, not hold min_periods values.
EnoughMutant(group, window, i) == i >= window
\* min_periods=5: at least 5 non-null values in the window
Enough(group, window, i) == Cardinality(WindowIdx(group, window, i)) >= MIN_PERIODS

\* lines 426-428
RollingMean(group, window, i) ==
    LET idx == WindowIdx(group, window, i)
    IN IF ~Enough(group, window, i) THEN NaN
       ELSE Frac(SumOver(group, idx, 1), Cardinality(idx))

\* lines 429-431: the sample standard deviation (ddof = 1), held by its
\* square  (n*Q - S^2) / (n*(n-1))
RollingStd(group, window, i) ==
    LET idx == WindowIdx(group, window, i)
        n == Cardinality(idx)
        S == SumOver(group, idx, 1)
        Q == SumOver(group, idx, 2)
    IN IF ~Enough(group, window, i) THEN NaN
       ELSE Frac(n * Q - S * S, n * (n - 1))

\* a - m for an average a and a mean m: NaN when either is
Minus(a, m) ==
    IF IsNull(a) \/ IsNull(m) THEN NaN
    ELSE Frac(a.sgn * a.n * m.d - m.sgn * m.n * a.d, a.d * m.d)

\* Fault: a zero deviation over a zero spread counted as unbounded.
DivMutant(x, s) ==
    IF IsNull(x) \/ IsNull(s) THEN NaN
    ELSE IF s.n = 0 THEN Inf(IF x.sgn < 0 THEN -1 ELSE 1)
    ELSE Fin(x.sgn, x.n * x.n * s.d, x.d * x.d * s.n)
\* x / s of line 433, for a number x and a deviation s held by its square;
\* the quotient is held by its sign and its square
Div(x, s) ==
    IF IsNull(x) \/ IsNull(s) THEN NaN
    ELSE IF s.n = 0 THEN (IF x.sgn = 0 THEN NaN ELSE Inf(x.sgn))
    ELSE Fin(x.sgn, x.n * x.n * s.d, x.d * x.d * s.n)

\* mean + k * std of lines 435-436, kept as the sum it is
Band(m, k, s) ==
    IF IsNull(m) \/ IsNull(s) THEN [kind |-> "nan", base |-> NaN, k |-> 0, std |-> NaN]
    ELSE [kind |-> "fin", base |-> m, k |-> k, std |-> s]

\* _apply_group (lines 424-438) at position i of a group
FeatureRow(group, window, i) ==
    LET m == RollingMean(group, window, i)
        s == RollingStd(group, window, i)
    IN group[i] @@
       [rolling_mean |-> m,
        rolling_std  |-> s,
        z_score      |-> Div(Minus(Num(group[i].average), m), s),
        upper_band   |-> Band(m, 2, s),
        lower_band   |-> Band(m, -2, s)]

apply_group(group, window) ==
    [i \in DOMAIN group |-> FeatureRow(group, window, i)]

\* Fault: the series are told apart by item only.
SeriesKeyMutant(row) == <<0, row.type_id>>
\* the grouping key of lines 440 and 454-456
SeriesKey(row) == <<row.region_id, row.type_id>>

\* x < y for two non-null numbers held by sign and magnitude (both plain
\* fractions, or both held by their squares)
Lt(x, y) ==
    IF x.kind = "inf" THEN x.sgn < 0 /\ ~(y.kind = "inf" /\ y.sgn < 0)
    ELSE IF y.kind = "inf" THEN y.sgn > 0
    ELSE IF x.sgn # y.sgn THEN x.sgn < y.sgn
    ELSE IF x.sgn > 0 THEN x.n * y.d < y.n * x.d
    ELSE IF x.sgn < 0 THEN x.n * y.d > y.n * x.d
    ELSE FALSE

Leq(x, y) == ~Lt(y, x)

\* line 422: sort_values(["region_id", "type_id", "date"])
KeyDateLess(a, b) ==
    \/ a.region_id < b.region_id
    \/ a.region_id = b.region_id /\ a.type_id < b.type_id
    \/ a.region_id = b.region_id /\ a.type_id = b.type_id /\ a.date < b.date

\* line 454: sort_values("date")
DateLess(a, b) == a.date < b.date

\* descending volume, nulls last (line 467)
VolumeBefore(a, b) ==
    IF a.volume = None THEN FALSE
    ELSE IF b.volume = None THEN TRUE
    ELSE a.volume > b.volume

\* Fault: the tie-break prefers the lower volume.
RankLessMutant(a, b) ==
    \/ Lt(a.z_score, b.z_score)
    \/ (~Lt(b.z_score, a.z_score) /\ VolumeBefore(b, a))
\* lines 465-468: by z_score ascending, then volume descending
RankLess(a, b) ==
    \/ Lt(a.z_score, b.z_score)
    \/ (~Lt(b.z_score, a.z_score) /\ VolumeBefore(a, b))

\* Fault: the score in ascending order.
ScoreBeforeMutant(a, b) ==
    IF IsNull(a.score) THEN FALSE
    ELSE IF IsNull(b.score) THEN TRUE
    ELSE Lt(a.score, b.score)
\* descending score, nulls last (legacy lines 242-243)
ScoreBefore(a, b) ==
    IF IsNull(a.score) THEN FALSE
    ELSE IF IsNull(b.score) THEN TRUE
    ELSE Lt(b.score, a.score)

\* a comes before b in the order `by` of a sort_values call
Before(by, a, b) ==
    CASE by = "key_date" -> KeyDateLess(a, b)
      [] by = "date"     -> DateLess(a, b)
      [] by = "rank"     -> RankLess(a, b)
      [] by = "score"    -> ScoreBefore(a, b)
      [] by = "z_score"  -> Lt(a.z_score, b.z_score)

\* the sorted list with x put behind the rows that do not come after it
InsertSorted(sorted, x, by) ==
    LET after == {i \in DOMAIN sorted : Before(by, x, sorted[i])}
        k == IF after = {} THEN Len(sorted) + 1
             ELSE CHOOSE i \in after : \A j \in after : i <= j
    IN SubSeq(sorted, 1, k - 1) \o <<x>> \o SubSeq(sorted, k, Len(sorted))

\* DataFrame.sort_values: a stable sort (the row counts of the model are
\* below the length at which numpy's quicksort stops being an insertion sort)
RECURSIVE SortValues(_, _)
SortValues(frame, by) ==
    IF frame = <<>> THEN <<>>
    ELSE InsertSorted(SortValues(SubSeq(frame, 1, Len(frame) - 1), by),
                      frame[Len(frame)], by)

\* the rows of one group, in frame order
GroupOf(frame, key) ==
    LET in_group(row) == SeriesKey(row) = key
    IN SelectSeq(frame, in_group)

\* the group keys in the order groupby visits them (sort=True)
KeyLess(a, b) == a[1] < b[1] \/ (a[1] = b[1] /\ a[2] < b[2])

RECURSIVE SortedKeys(_)
SortedKeys(K) ==
    IF K = {} THEN <<>>
    ELSE LET m == CHOOSE x \in K : \A y \in K : x = y \/ KeyLess(x, y)
         IN <<m>> \o SortedKeys(K \ {m})

\* groupby(...).apply(_apply_group) of line 440, from the k-th key on
RECURSIVE ApplyGroups(_, _, _, _)
ApplyGroups(frame, keys, window, k) ==
    IF k > Len(keys) THEN <<>>
    ELSE apply_group(GroupOf(frame, keys[k]), window)
         \o ApplyGroups(frame, keys, window, k + 1)

\* compute_time_series_features (lines 413-441)
compute_time_series_features(frame, window) ==
    LET df_sorted == SortValues(frame, "key_date")
        keys == SortedKeys({SeriesKey(frame[i]) : i \in DOMAIN frame})
    IN ApplyGroups(df_sorted, keys, window, 1)

-----------------------------------------------------------------------------
(***************************************************************************)
(* Classifier: find_buy_opportunities (lines 444-470) and the legacy       *)
(* split_buy_sell_opportunities (src/market_analyzer.py, lines 217-245)    *)
(***************************************************************************)
Neg(x) == [x EXCEPT !.sgn = -x.sgn]

\* a fraction, held the way a z-score is: by sign and square
Squared(c) == Fin(c.sgn, c.n * c.n, c.d * c.d)

\* sort_values("date").groupby([...]).tail(1): the last row of each group
\* in date order, the rows kept in that order (lines 454-456)
RECURSIVE TailOfGroups(_, _)
TailOfGroups(frame, i) ==
    IF i > Len(frame) THEN <<>>
    ELSE (IF \E j \in DOMAIN frame :
               j > i /\ SeriesKey(frame[j]) = SeriesKey(frame[i])
          THEN <<>> ELSE <<frame[i]>>)
         \o TailOfGroups(frame, i + 1)

LatestRows(features) == TailOfGroups(SortValues(features, "date"), 1)

\* dropna(subset=["rolling_mean", "rolling_std", "z_score"]) keeps the row
Complete(row) ==
    ~IsNull(row.rolling_mean) /\ ~IsNull(row.rolling_std) /\ ~IsNull(row.z_score)

\* Fault: the incomplete rows are dropped before the latest row is taken.
LatestCompleteMutant(features) ==
    TailOfGroups(SortValues(SelectSeq(features, Complete), "date"), 1)
\* lines 454-458
LatestComplete(features) == SelectSeq(LatestRows(features), Complete)

\* line 460: z_score <= -zscore_threshold
IsBuy(row, threshold) == Leq(row.z_score, Neg(Squared(threshold)))

\* Fault: the deviation is taken by its size.
IsSellMutant(row, threshold) ==
    Leq(Squared(threshold), [row.z_score EXCEPT !.sgn = Abs(row.z_score.sgn)])
\* legacy line 235: z_score >= zscore_threshold
IsSell(row, threshold) == Leq(Squared(threshold), row.z_score)

\* find_buy_opportunities (lines 444-470)
find_buy_opportunities(features, threshold) ==
    LET is_buy(row) == IsBuy(row, threshold)
        df_buy0 == SelectSeq(LatestComplete(features), is_buy)
    IN IF df_buy0 = <<>> THEN df_buy0 ELSE SortValues(df_buy0, "rank")

\* legacy lines 239-240: abs_z * sqrt(volume.fillna(0)), held by its square
Score(row) ==
    LET v == IF row.volume = None THEN 0 ELSE row.volume
        z == row.z_score
    IN IF z.kind = "inf" THEN (IF v = 0 THEN NaN ELSE Inf(1))
       ELSE Fin(Sign(v * z.n), z.n * v, z.d)

WithScore(row) ==
    row @@ [abs_z |-> [row.z_score EXCEPT !.sgn = Abs(row.z_score.sgn)],
            score |-> Score(row)]

Scored(rows) == SortValues([i \in DOMAIN rows |-> WithScore(rows[i])], "score")

\* split_buy_sell_opportunities (legacy lines 217-245): <<df_buy, df_sell>>
split_buy_sell_opportunities(features, threshold) ==
    LET is_buy(row) == IsBuy(row, threshold)
        is_sell(row) == IsSell(row, threshold)
        df_latest == LatestComplete(features)
    IN <<Scored(SelectSeq(df_latest, is_buy)),
         Scored(SelectSeq(df_latest, is_sell))>>

-----------------------------------------------------------------------------
(***************************************************************************)
(* The analysis steps of main() (lines 546-563) and of the legacy main     *)
(***************************************************************************)
\* head(50) of line 563, scaled to the model's tables.
TOP_N == 1

\* ZSCORE_THRESHOLD: 1.5 (line 79); 2.0 in src/market_analyzer.py
ZSCORE_THRESHOLD == Frac(3, 2)
LEGACY_ZSCORE_THRESHOLD == Frac(2, 1)
Thresholds == {ZSCORE_THRESHOLD, LEGACY_ZSCORE_THRESHOLD, Frac(0, 1)}

\* Daily average prices.
PriceChoices == {10, 11, 12}

\* A series of averages is one of these first days followed by up to
\* MaxDays further days of any of the prices.
Openings == {<<>>, <<10, 10, 10, 10>>, <<12, 12, 12, 12>>, <<10, 12, 10, 12>>}
MaxDays == 2
AverageSeries ==
    {o \o t : o \in Openings, t \in UNION {[1..n -> PriceChoices] : n \in 0..MaxDays}}

\* values of the rolling_window parameter (pandas refuses a window below
\* min_periods)
Windows == {MIN_PERIODS, MIN_PERIODS + 1}

PriceEntry(d, avg, vol) ==
    [date |-> d, order_count |-> 3, volume |-> vol,
     highest |-> 12, lowest |-> 8, average |-> avg]

\* The stored rows of one series with the averages avgs and volume vol.
SeriesRows(region_id, type_id, avgs, vol) ==
    [i \in DOMAIN avgs |-> Row(region_id, type_id, PriceEntry(i, avgs[i], vol))]

Mirrored(avgs) ==
    [i \in DOMAIN avgs |-> IF avgs[i] = None THEN None ELSE 22 - avgs[i]]

\* The second series of a table, next to the series of item 34 in Jita:
\*   louder  the same prices for item 35, at a higher volume
\*   muted   the same prices for item 33, the volume NULL
\*   mirror  the prices mirrored about 11 for item 35, the volume NULL
\*   gap     the same prices for item 35, the first day's average NULL
\*   lapsed  the same prices for item 35, then a day with a NULL average
\*   abroad  the mirrored prices for item 34 in another region
Companions == {"none", "louder", "muted", "mirror", "gap", "lapsed", "abroad"}
CompanionRows(c, avgs) ==
    CASE c = "none"   -> <<>>
      [] c = "louder" -> SeriesRows(JITA_REGION_ID, 35, avgs, 80)
      [] c = "muted"  -> SeriesRows(JITA_REGION_ID, 33, avgs, None)
      [] c = "mirror" -> SeriesRows(JITA_REGION_ID, 35, Mirrored(avgs), None)
      [] c = "gap"    -> SeriesRows(JITA_REGION_ID, 35,
                                    [k \in DOMAIN avgs |->
                                       IF k = 1 THEN None ELSE avgs[k]], 50)
      [] c = "lapsed" -> SeriesRows(JITA_REGION_ID, 35, Append(avgs, None), 50)
      [] c = "abroad" -> SeriesRows(JITA_REGION_ID + 1, 34, Mirrored(avgs), 50)

Reverse(seq) == [i \in DOMAIN seq |-> seq[Len(seq) + 1 - i]]

\* The history tables load_history_to_dataframe hands over, in the two row
\* orders a SELECT without ORDER BY is taken to give.
Frames(avgs, c) ==
    LET rows == SeriesRows(JITA_REGION_ID, 34, avgs, 50) \o CompanionRows(c, avgs)
    IN {rows, Reverse(rows)}

AnaAt(pc, frame, window) ==
    /\ ana_pc = pc
    /\ df = frame
    /\ rolling_window = window
    /\ df_features = <<>>
    /\ zscore_threshold = ZSCORE_THRESHOLD
    /\ df_buy = <<>>
    /\ df_sell = <<>>
    /\ df_buy_top = <<>>

AnaIdle == AnaAt("idle", <<>>, MIN_PERIODS)

\* lines 548-551: nothing stored, the run ends
LoadEmpty ==
    /\ ana_pc = "loaded"
    /\ df = <<>>
    /\ ana_pc' = "done"
    /\ UNCHANGED <<df, rolling_window, df_features, zscore_threshold,
                   df_buy, df_sell, df_buy_top>>
    /\ UNCHANGED not_ana

\* line 553
ComputeFeatures ==
    /\ ana_pc = "loaded"
    /\ df # <<>>
    /\ df_features' = compute_time_series_features(df, rolling_window)
    /\ ana_pc' = "features"
    /\ UNCHANGED <<df, rolling_window, zscore_threshold, df_buy, df_sell,
                   df_buy_top>>
    /\ UNCHANGED not_ana

\* line 557
FindBuy ==
    /\ ana_pc = "features"
    /\ \E threshold \in Thresholds :
         /\ zscore_threshold' = threshold
         /\ df_buy' = find_buy_opportunities(df_features, threshold)
    /\ ana_pc' = "buy"
    /\ UNCHANGED <<df, rolling_window, df_features, df_sell, df_buy_top>>
    /\ UNCHANGED not_ana

\* lines 558-560: no candidate, the run ends
NoBuy ==
    /\ ana_pc = "buy"
    /\ df_buy = <<>>
    /\ ana_pc' = "done"
    /\ UNCHANGED <<df, rolling_window, df_features, zscore_threshold,
                   df_buy, df_sell, df_buy_top>>
    /\ UNCHANGED not_ana

\* DataFrame.head(n)
HeadRows(frame, n) == IF Len(frame) > n THEN SubSeq(frame, 1, n) ELSE frame

\* line 563
TopBuy ==
    /\ ana_pc = "buy"
    /\ df_buy # <<>>
    /\ df_buy_top' = HeadRows(df_buy, TOP_N)
    /\ ana_pc' = "top"
    /\ UNCHANGED <<df, rolling_window, df_features, zscore_threshold,
                   df_buy, df_sell>>
    /\ UNCHANGED not_ana

\* the legacy variant's split of the feature table
SplitBuySell ==
    /\ ana_pc = "features"
    /\ \E threshold \in Thresholds :
         LET lists == split_buy_sell_opportunities(df_features, threshold)
         IN /\ zscore_threshold' = threshold
            /\ df_buy' = lists[1]
            /\ df_sell' = lists[2]
    /\ ana_pc' = "split"
    /\ UNCHANGED <<df, rolling_window, df_features, df_buy_top>>
    /\ UNCHANGED not_ana

-----------------------------------------------------------------------------
(***************************************************************************)
(* Query of the web service: load_latest_analyzed                          *)
(* (src/backend/database.py, lines 8-26), called by the route undervalued  *)
(* (src/backend/app.py, lines 8-14)                                        *)
(***************************************************************************)
\* rolling(30, min_periods=5) of database.py, lines 17-18
LATEST_WINDOW == 30

\* Fault: the first row of each item, not the last.
LatestPerItemMutant(frame) ==
    LET by_date == SortValues(frame, "date")
        first(i) == \A j \in DOMAIN by_date :
                       by_date[j].type_id = by_date[i].type_id => i <= j
        keep(row) == \E i \in DOMAIN by_date : by_date[i] = row /\ first(i)
    IN SelectSeq(by_date, keep)
\* database.py line 13: sort_values("date").groupby("type_id").tail(1)
LatestPerItem(frame) ==
    LET by_date == SortValues(frame, "date")
        last(i) == \A j \in DOMAIN by_date :
                      by_date[j].type_id = by_date[i].type_id => j <= i
        keep(row) == \E i \in DOMAIN by_date : by_date[i] = row /\ last(i)
    IN SelectSeq(by_date, keep)

\* x / m for two fractions (database.py line 20)
Quot(x, m) ==
    IF IsNull(x) \/ IsNull(m) THEN NaN
    ELSE IF m.n = 0 THEN (IF x.sgn = 0 THEN NaN ELSE Inf(x.sgn))
    ELSE Fin(x.sgn * m.sgn, x.n * m.d, x.d * m.n)

\* database.py lines 17-20 at row i of the filtered frame: the rolling
\* statistics run over the rows of the frame, one row per item
AnalyzedRow(frame, i) ==
    LET m == RollingMean(frame, LATEST_WINDOW, i)
        s == RollingStd(frame, LATEST_WINDOW, i)
        dev == Minus(Num(frame[i].average), m)
    IN frame[i] @@
       [rolling_mean |-> m,
        rolling_std  |-> s,
        z_score      |-> Div(dev, s),
        pct_diff     |-> Quot(dev, m)]

\* database.py line 22: z_score < 0 (false for NaN)
Undervalued(row) == row.z_score.kind # "nan" /\ row.z_score.sgn < 0

\* load_latest_analyzed (database.py lines 8-26) on the rows read
load_latest_analyzed(frame, minimum, n) ==
    LET liquid(row) == row.volume # None /\ row.volume >= minimum
        latest == SelectSeq(LatestPerItem(frame), liquid)
        analyzed == [i \in DOMAIN latest |-> AnalyzedRow(latest, i)]
    IN HeadRows(SortValues(SelectSeq(analyzed, Undervalued), "z_score"), n)

\* The rows of the table in primary-key order: what SELECT * reads.
RECURSIVE ReadAll(_)
ReadAll(T) ==
    IF T = {} THEN <<>>
    ELSE LET r == CHOOSE x \in T : \A y \in T : x = y \/ KeyDateLess(x, y)
         IN <<r>> \o ReadAll(T \ {r})

\* Stores of earlier runs: one row a day, each day the latest row of another
\* item, the first four items at the prices of an opening, up to MaxLate
\* further items at any price and one of two volumes; and for the last item
\* nothing more, an older row, or a newer row in another region.
MaxLate == 3
Volumes == {20, 60}
LateItems ==
    UNION {[1..n -> PriceChoices \X Volumes] : n \in 1..MaxLate}
Extras == {"none", "older", "abroad"}

StoredLatest(opening, late, extra) ==
    LET n == Len(opening) + Len(late)
        item(i) == 33 + i
        early == {Row(JITA_REGION_ID, item(i), PriceEntry(10 + i, opening[i], 60)) :
                    i \in DOMAIN opening}
        rest == {Row(JITA_REGION_ID, item(Len(opening) + i),
                     PriceEntry(10 + Len(opening) + i, late[i][1], late[i][2])) :
                    i \in DOMAIN late}
        more == CASE extra = "none"   -> {}
                  [] extra = "older"  ->
                       {Row(JITA_REGION_ID, item(n), PriceEntry(1, 12, 60))}
                  [] extra = "abroad" ->
                       {Row(JITA_REGION_ID + 1, item(n), PriceEntry(99, 10, 60))}
    IN early \cup rest \cup more

\* min_volume and limit of the route (defaults 50 and 50)
MinVolumes == {0, 50}
Limits == {0, 1, 50}

QryAt(pc) ==
    /\ qry_pc = pc
    /\ min_volume = 50
    /\ limit = 50
    /\ latest_out = <<>>

QryIdle == QryAt("idle")

\* one request GET /api/undervalued?min_volume=..&limit=..
Undervalue ==
    /\ qry_pc = "ready"
    /\ \E m \in MinVolumes, n \in Limits :
         /\ min_volume' = m
         /\ limit' = n
         /\ latest_out' = load_latest_analyzed(ReadAll(table), m, n)
    /\ qry_pc' = "returned"
    /\ UNCHANGED <<esi_vars, res_vars, store_vars, run_vars, col_vars, net_vars,
                   name_vars, ana_vars, mem_vars>>

-----------------------------------------------------------------------------
(***************************************************************************)
(* Name cache: get_type_name (lines 327-364)                               *)
(***************************************************************************)
\* A lookup that finds no row, or a payload without a name: falsy at lines
\* 357 and 361.
NoName == ""

NameIds == {34, 35}

\* The names the remote may answer for an item, at different times.
RemoteNames(type_id) ==
    CASE type_id = 34 -> {"Tritanium", "Tritanium (old)"}
      [] type_id = 35 -> {"Pyerite", "Pyerite (old)"}

\* f"type_id_{type_id}" of line 361
Placeholder(type_id) ==
    CASE type_id = 34 -> "type_id_34"
      [] type_id = 35 -> "type_id_35"

\* fetch_type_name_from_db (lines 327-331)
fetch_type_name_from_db(type_id) ==
    IF type_id \in DOMAIN type_names THEN type_names[type_id] ELSE NoName

\* Fault: a placeholder is not written to the cache.
SavedMutant(cache, type_id, name) ==
    IF name = Placeholder(type_id) THEN cache ELSE (type_id :> name) @@ cache
\* save_type_name_to_db (lines 334-340): INSERT OR REPLACE
Saved(cache, type_id, name) == (type_id :> name) @@ cache

\* Calls of get_type_name a behaviour holds at most.
MaxCalls == 4

\* the return of a get_type_name call
NameReturned(type_id, looked_up, name) ==
    name_calls' = Append(name_calls,
                         [type_id |-> type_id,
                          held |-> type_id \in DOMAIN type_names,
                          looked_up |-> looked_up,
                          name |-> name])

\* lines 355-359: the cache holds the name
NameHit ==
    /\ Len(name_calls) < MaxCalls
    /\ \E t \in NameIds :
         /\ fetch_type_name_from_db(t) # NoName
         /\ NameReturned(t, FALSE, fetch_type_name_from_db(t))
    /\ UNCHANGED <<type_names, wire>>
    /\ UNCHANGED not_name

\* lines 361-364 after a miss, the remote lookup giving `from_esi`
NameMissed(t, ok, from_esi) ==
    LET name == IF from_esi # NoName THEN from_esi ELSE Placeholder(t)
    IN /\ Len(name_calls) < MaxCalls
       /\ fetch_type_name_from_db(t) = NoName
       /\ wire' = Append(wire, Called("name", t, ok))
       /\ type_names' = Saved(type_names, t, name)
       /\ NameReturned(t, TRUE, name)
       /\ UNCHANGED not_name

\* lines 343-348 returning the remote name
NameFetched == \E t \in NameIds : \E name \in RemoteNames(t) : NameMissed(t, TRUE, name)

\* line 348 returning None or "": the payload carries no name
NameUnnamed == \E t \in NameIds : NameMissed(t, TRUE, NoName)

\* lines 344-346: esi_get gave no response
NameFailed == \E t \in NameIds : NameMissed(t, FALSE, NoName)

-----------------------------------------------------------------------------
(***************************************************************************)
(* is_under_target_root (lines 202-215) called on its own, any number of   *)
(* times and for any id, over a loaded graph with its roots found.         *)
(***************************************************************************)
\* Calls of is_under_target_root a behaviour holds at most.
MaxQueries == 3

\* The ids a call may be made for: those of the remote graphs, loaded or not.
QueryIds == UNION {DOMAIN g : g \in RunGraphs}

Restrict(g, S) == [c \in S |-> g[c]]

\* What the detail loop can leave of a remote graph, a root among it.
MemberGraphs ==
    {h \in {Restrict(g[1], g[2]) :
              g \in {x \in RunGraphs \X SUBSET QueryIds : x[2] \subseteq DOMAIN x[1]}} :
       RootIds(h) # {}}

\* The return of a call (lines 204, 211, 215)
Answered(gid, hit, result, links) ==
    /\ queries' = Append(queries, [gid |-> gid, hit |-> hit, result |-> result,
                                   links |-> links])
    /\ res_pc' = "member"

\* Fault: the result is cached for every category the walk went through.
RememberMutant(value) ==
    cache_is_target' =
        [g \in DOMAIN cache_is_target \cup seen \cup {walk_gid} |->
            IF g \in seen \cup {walk_gid} THEN value ELSE cache_is_target[g]]
\* lines 210 and 214: cache_is_target[gid] = value
Remember(value) ==
    cache_is_target' = (walk_gid :> value) @@ cache_is_target

\* lines 203-204: the id is cached
MemberHit ==
    /\ res_pc = "member"
    /\ Len(queries) < MaxQueries
    /\ \E gid \in QueryIds :
         /\ gid \in DOMAIN cache_is_target
         /\ Answered(gid, TRUE, cache_is_target[gid], 0)
    /\ UNCHANGED <<groups, group_order, root_ids, cache_is_target, scan_idx,
                   walk_gid, current, seen, walk_steps, type_ids, type_id_list>>
    /\ UNCHANGED not_mem

\* lines 203, 205-206: the id is not cached, the walk starts
MemberMiss ==
    /\ res_pc = "member"
    /\ Len(queries) < MaxQueries
    /\ \E gid \in QueryIds :
         /\ gid \notin DOMAIN cache_is_target
         /\ walk_gid' = gid
         /\ current' = gid
    /\ seen' = {}
    /\ walk_steps' = 0
    /\ res_pc' = "member_walk"
    /\ UNCHANGED <<groups, group_order, root_ids, cache_is_target, scan_idx,
                   type_ids, type_id_list, queries>>
    /\ UNCHANGED not_mem

\* lines 207-211: the current category is a root
MemberRoot ==
    /\ res_pc = "member_walk"
    /\ LoopCond
    /\ current \in root_ids
    /\ seen' = seen \cup {current}
    /\ walk_steps' = walk_steps + 1
    /\ Remember(TRUE)
    /\ Answered(walk_gid, FALSE, TRUE, walk_steps)
    /\ UNCHANGED <<groups, group_order, root_ids, scan_idx, walk_gid, current,
                   type_ids, type_id_list>>
    /\ UNCHANGED not_mem

\* lines 207-209, 212-213: up to the parent
MemberUp ==
    /\ res_pc = "member_walk"
    /\ LoopCond
    /\ current \notin root_ids
    /\ seen' = seen \cup {current}
    /\ walk_steps' = walk_steps + 1
    /\ current' = ParentOf(current)
    /\ UNCHANGED <<groups, group_order, root_ids, cache_is_target, res_pc,
                   scan_idx, walk_gid, type_ids, type_id_list, queries>>
    /\ UNCHANGED not_mem

\* lines 207, 214-215: the loop ends without a root
MemberExit ==
    /\ res_pc = "member_walk"
    /\ ~LoopCond
    /\ Remember(FALSE)
    /\ Answered(walk_gid, FALSE, FALSE, walk_steps)
    /\ UNCHANGED <<groups, group_order, root_ids, scan_idx, walk_gid, current,
                   seen, walk_steps, type_ids, type_id_list>>
    /\ UNCHANGED not_mem

\* The resolver's variables at line 202, the roots of `g` found.
MemberAt(g) ==
    /\ groups = g
    /\ group_order = KeyOrder(g)
    /\ root_ids = RootIds(g)
    /\ cache_is_target = EmptyMap
    /\ res_pc = "member"
    /\ scan_idx = 1
    /\ walk_gid = None
    /\ current = None
    /\ seen = {}
    /\ walk_steps = 0
    /\ type_ids = {}
    /\ type_id_list = <<>>
    /\ queries = <<>>

-----------------------------------------------------------------------------
(***************************************************************************)
(* Specifications                                                          *)
(***************************************************************************)
ResIdle == ResolveAt(EmptyMap, "idle")

\* One call of esi_get, the server answering each request in any way.
InitFetch == EsiCalled /\ ResIdle /\ StoreIdle /\ RunIdle /\ ColIdle /\ NetIdle /\ NameIdle /\ QryIdle /\ AnaIdle
NextFetch == EsiException \/ EsiRetryable \/ EsiDefinitive \/ EsiSuccess
SpecFetch == InitFetch /\ [][NextFetch]_vars

\* Lines 189-235 over every loaded graph of MaxGroups categories.
InitResolve ==
    /\ \E n \in 1..MaxGroups :
         \E nm \in [LoadedIds(n) -> GroupNames],
            par \in [LoadedIds(n) -> {None, UnloadedId} \cup LoadedIds(n)],
            ht \in [LoadedIds(n) -> BOOLEAN] :
           /\ \A g \in LoadedIds(n) :
                 (IF ht[g] THEN RemoteTypes(g) ELSE <<>>) \in TypeChoices(g)
           /\ ResolveAt([g \in LoadedIds(n) |->
                           Info(nm[g], par[g],
                                IF ht[g] THEN RemoteTypes(g) ELSE <<>>)],
                        "roots")
    /\ EsiIdle /\ StoreIdle /\ RunIdle /\ ColIdle /\ NetIdle /\ NameIdle /\ QryIdle /\ AnaIdle
NextResolve ==
    \/ FindRoots
    \/ NoRoots
    \/ ScanSkip
    \/ ScanQuery
    \/ WalkRoot
    \/ WalkUp
    \/ WalkExit
    \/ ScanDone
SpecResolve == InitResolve /\ [][NextResolve]_vars

\* Any sequence of store_market_history calls on an initially empty table.
InitStore == StoreIdle /\ EsiIdle /\ ResIdle /\ RunIdle /\ ColIdle /\ NetIdle /\ NameIdle /\ QryIdle /\ AnaIdle
NextStore == StoreCall
SpecStore == InitStore /\ [][NextStore]_vars

\* One call of collect_and_store_all_history on an initially empty table.
InitCollect ==
    /\ \E rs \in CollectRegionLists, ts \in CollectTypeLists :
         CollectAt("loop", rs, ts)
    /\ EsiIdle /\ ResIdle /\ StoreIdle /\ RunIdle /\ NetIdle /\ NameIdle /\ QryIdle /\ AnaIdle
NextCollect ==
    \/ CollectNoResponse
    \/ CollectMalformed
    \/ CollectEmpty
    \/ CollectStore
    \/ CollectDone
SpecCollect == InitCollect /\ [][NextCollect]_vars

\* The analysis of one loaded history table: the feature engine, then the
\* classifier of either variant.
InitFeatures ==
    /\ \E avgs \in AverageSeries, c \in Companions, w \in Windows :
         \E frame \in Frames(avgs, c) : AnaAt("loaded", frame, w)
    /\ EsiIdle /\ ResIdle /\ StoreIdle /\ RunIdle /\ ColIdle /\ NetIdle /\ NameIdle /\ QryIdle
NextFeatures ==
    \/ LoadEmpty
    \/ ComputeFeatures
    \/ FindBuy
    \/ NoBuy
    \/ TopBuy
    \/ SplitBuySell
SpecFeatures == InitFeatures /\ [][NextFeatures]_vars

\* One request to the web service on a store left by earlier runs.
InitQuery ==
    /\ \E o \in Openings \ {<<>>}, late \in LateItems, x \in Extras :
         table = StoredLatest(o, late, x)
    /\ last_written = EmptyMap
    /\ last_call = NoCall
    /\ QryAt("ready")
    /\ EsiIdle /\ ResIdle /\ RunIdle /\ ColIdle /\ NetIdle /\ NameIdle /\ AnaIdle
NextQuery == Undervalue
SpecQuery == InitQuery /\ [][NextQuery]_vars

\* Any sequence of is_under_target_root calls over a loaded graph.
InitMember ==
    /\ \E g \in MemberGraphs : MemberAt(g)
    /\ EsiIdle /\ StoreIdle /\ RunIdle /\ ColIdle /\ NetIdle /\ NameIdle /\ QryIdle /\ AnaIdle
NextMember ==
    \/ MemberHit
    \/ MemberMiss
    \/ MemberRoot
    \/ MemberUp
    \/ MemberExit
SpecMember == InitMember /\ [][NextMember]_vars

\* Any sequence of get_type_name calls, in one run or several, on a cache
\* that starts empty.
InitNames ==
    /\ NameIdle
    /\ EsiIdle /\ ResIdle /\ StoreIdle /\ RunIdle /\ ColIdle /\ NetIdle /\ AnaIdle
    /\ QryIdle
NextNames ==
    \/ NameHit
    \/ NameFetched
    \/ NameUnnamed
    \/ NameFailed
SpecNames == InitNames /\ [][NextNames]_vars

\* One run of main() against one of the remote graphs.
InitRun ==
    /\ \E g \in RunGraphs : RunAt("list", g)
    /\ EsiIdle /\ ResIdle /\ StoreIdle /\ ColIdle /\ NetIdle /\ NameIdle /\ QryIdle /\ AnaIdle
NextRun ==
    \/ ListFail
    \/ ListEmpty
    \/ ListLastPage
    \/ ListNextPage
    \/ DetailFail
    \/ DetailLoad
    \/ DetailsDone
    \/ FindRoots
    \/ NoRoots
    \/ ScanSkip
    \/ ScanQuery
    \/ WalkRoot
    \/ WalkUp
    \/ WalkExit
    \/ ScanDone
    \/ MainAbort
    \/ MainCollect
    \/ CollectNoResponse
    \/ CollectMalformed
    \/ CollectEmpty
    \/ CollectStore
    \/ CollectDone
SpecRun == InitRun /\ [][NextRun]_vars

-----------------------------------------------------------------------------
(***************************************************************************)
(* Properties of the ancestry walk                                         *)
(***************************************************************************)
\* The loaded categories met by following parent links from g, g included,
\* for at most n links.
RECURSIVE Chain(_, _)
Chain(g, n) ==
    IF n = 0 \/ g \notin DOMAIN groups THEN {}
    ELSE {g} \cup Chain(groups[g].parent_id, n - 1)

\* The parent-link path of g within the loaded graph.
Ancestry(g) == Chain(g, Cardinality(DOMAIN groups))

\* c lies on a cycle of parent links.
OnCycle(c) ==
    /\ c \in DOMAIN groups
    /\ c \in Chain(groups[c].parent_id, Cardinality(DOMAIN groups))

LeadsIntoCycle(g) == \E c \in Ancestry(g) : OnCycle(c)

Acyclic == \A c \in DOMAIN groups : ~OnCycle(c)

\* The categories carrying one of the configured root names.
NamedRoots ==
    {c \in DOMAIN groups :
       \E n \in TARGET_MARKET_GROUP_ROOT_NAMES : groups[c].name = n}

\* Each iteration of the loop of line 207 marks a category not marked before,
\* so a walk makes at most as many iterations as there are loaded categories.
WalkBounded ==
    /\ walk_steps <= Cardinality(DOMAIN groups)
    /\ res_pc = "walk" => walk_steps = Cardinality(seen) /\ seen \subseteq DOMAIN groups

\* C1 as stated: the ancestry walk from a non-root category whose parent
\* chain leads into a cycle terminates and reports the category non-member.
C1_CycleNonMember ==
    /\ WalkBounded
    /\ \A g \in DOMAIN cache_is_target :
         (g \notin NamedRoots /\ LeadsIntoCycle(g)) => cache_is_target[g] = FALSE

\* C1, amended: the ancestry walk always terminates within as many iterations
\* as there are loaded categories, and a category whose parent chain leads
\* into a cycle is reported non-member when no root id lies on that chain.
C1_CycleWalkTerminates ==
    /\ WalkBounded
    /\ \A g \in DOMAIN cache_is_target :
         (LeadsIntoCycle(g) /\ Ancestry(g) \cap NamedRoots = {})
            => cache_is_target[g] = FALSE

\* A finished walk that entered a cycle from outside and stopped on the
\* category it met a second time.
C1_Witness ==
    /\ res_pc = "scan"
    /\ walk_gid \in DOMAIN cache_is_target
    /\ cache_is_target[walk_gid] = FALSE
    /\ LeadsIntoCycle(walk_gid)
    /\ ~OnCycle(walk_gid)
    /\ seen = Ancestry(walk_gid)
    /\ Cardinality(seen) >= 2
    /\ current \in seen

\* C2: in a graph without cycles, a category is reported member exactly when
\* a category with a configured root name lies on its parent-link path (the
\* category itself included).
C2_MemberIffRootOnPath ==
    Acyclic =>
      \A g \in DOMAIN cache_is_target :
         cache_is_target[g] <=> (Ancestry(g) \cap NamedRoots # {})

\* A member two links below its root, in an acyclic graph.
C2_Witness ==
    /\ Acyclic
    /\ \E g \in DOMAIN cache_is_target :
         /\ cache_is_target[g]
         /\ g \notin NamedRoots
         /\ groups[g].parent_id \notin NamedRoots
         /\ \E t \in Ancestry(g) : groups[t].parent_id = None

-----------------------------------------------------------------------------
(***************************************************************************)
(* Properties of esi_get                                                   *)
(***************************************************************************)
RetryableAnswer(o) == ~o.exc /\ o.status \in {420, 429, 500, 502, 503, 504}
TransientAnswer(o) == o.exc \/ RetryableAnswer(o)
DefinitiveAnswer(o) == ~o.exc /\ o.status # 200 /\ ~RetryableAnswer(o)
OkAnswer(o) == ~o.exc /\ o.status = 200

\* C3: k < MAX_RETRIES retryable statuses followed by a 200 make esi_get
\* return that response after k+1 requests and k sleeps, each sleep longer
\* than the one before.
C3_RetryThenSuccess ==
    \A k \in 0..(MAX_RETRIES - 1) :
       ( /\ Len(esi_outcomes) >= k + 1
         /\ \A i \in 1..k : RetryableAnswer(esi_outcomes[i])
         /\ OkAnswer(esi_outcomes[k + 1]) )
       => /\ esi_pc = "returned"
          /\ esi_result = [is_none |-> FALSE, status |-> 200]
          /\ Len(esi_outcomes) = k + 1
          /\ Len(esi_sleeps) = k
          /\ \A i \in 1..(k - 1) : esi_sleeps[i] < esi_sleeps[i + 1]

\* 429, 429, 200: the scenario of the fetch client.
C3_Witness ==
    /\ esi_pc = "returned"
    /\ esi_outcomes = <<HttpOutcome(429), HttpOutcome(429), HttpOutcome(200)>>
    /\ ~esi_result.is_none
    /\ Len(esi_sleeps) = 2
    /\ esi_sleeps[1] < esi_sleeps[2]

\* C4: a status that is neither 200 nor retryable ends the call at once with
\* no result: it is the last request, and no sleep follows it.
C4_DefinitiveFailure ==
    \A i \in 1..Len(esi_outcomes) :
       DefinitiveAnswer(esi_outcomes[i])
       => /\ i = Len(esi_outcomes)
          /\ esi_pc = "returned"
          /\ esi_result.is_none
          /\ Len(esi_sleeps) = i - 1

\* A 404 on the first attempt.
C4_Witness ==
    /\ esi_outcomes = <<HttpOutcome(404)>>
    /\ esi_pc = "returned"
    /\ esi_result.is_none
    /\ esi_sleeps = <<>>

\* C5: whatever the server does, esi_get makes at most MAX_RETRIES requests,
\* can always take its next step while it has not returned, returns None or
\* a status-200 response, and returns None after exactly MAX_RETRIES requests
\* when every attempt was an exception or a retryable status.
C5_BoundedAndTotal ==
    /\ esi_pc \in {"loop", "returned"}
    /\ Len(esi_outcomes) <= MAX_RETRIES
    /\ esi_pc = "loop" =>
          /\ Len(esi_outcomes) = attempt - 1
          /\ Len(esi_outcomes) < MAX_RETRIES
          /\ ENABLED NextFetch
    /\ esi_pc = "returned" =>
          /\ esi_result.is_none \/ esi_result.status = 200
          /\ ~esi_result.is_none <=> OkAnswer(esi_outcomes[Len(esi_outcomes)])
          /\ (\A i \in 1..Len(esi_outcomes) : TransientAnswer(esi_outcomes[i]))
                => esi_result.is_none /\ Len(esi_outcomes) = MAX_RETRIES

\* Retries exhausted by a mix of exceptions and retryable statuses.
C5_Witness ==
    /\ esi_pc = "returned"
    /\ esi_result.is_none
    /\ Len(esi_outcomes) = MAX_RETRIES
    /\ \A i \in 1..Len(esi_outcomes) : TransientAnswer(esi_outcomes[i])
    /\ \E i \in 1..Len(esi_outcomes) : esi_outcomes[i].exc
    /\ \E i \in 1..Len(esi_outcomes) : ~esi_outcomes[i].exc

-----------------------------------------------------------------------------
(***************************************************************************)
(* Properties of the store                                                 *)
(***************************************************************************)
ValueFields == {"order_count", "volume", "highest", "lowest", "average"}

\* C6: after any store call, the same call made again leaves market_history
\* with the same number of rows and the same rows.
C6_UpsertIdempotent ==
    last_call # NoCall =>
      LET again == store_market_history(table, last_call.region_id,
                                        last_call.type_id, last_call.history)
      IN /\ Cardinality(again) = Cardinality(table)
         /\ again = table

\* A batch that writes one key twice with different values, into a table
\* that holds rows of another item too.
C6_Witness ==
    /\ Len(last_call.history) = 2
    /\ last_call.history[1].date = last_call.history[2].date
    /\ last_call.history[1] # last_call.history[2]
    /\ \E x \in table : x.type_id = last_call.type_id
    /\ \E x \in table : x.type_id # last_call.type_id

\* C7: market_history holds at most one row per (region_id, type_id, date),
\* exactly for the keys ever written, and the row carries the values of the
\* last entry written for its key, None for each value that entry lacks.
C7_LastWriteWins ==
    /\ \A x, y \in table : KeyOf(x) = KeyOf(y) => x = y
    /\ {KeyOf(x) : x \in table} = DOMAIN last_written
    /\ \A x \in table :
         LET e == last_written[KeyOf(x)]
         IN \A f \in ValueFields :
               x[f] = IF f \in DOMAIN e THEN e[f] ELSE None

\* A full entry overwritten by an entry with the average only: the other
\* values of the row are None.
C7_Witness ==
    /\ last_call.history = <<FullEntry(1), PartialEntry(1)>>
    /\ \E x \in table :
         /\ KeyOf(x) = <<last_call.region_id, last_call.type_id, 1>>
         /\ x.average = 20
         /\ x.volume = None
         /\ x.order_count = None
    /\ Cardinality(table) >= 2

-----------------------------------------------------------------------------
(***************************************************************************)
(* Properties of discovery                                                 *)
(***************************************************************************)
\* The categories whose membership is true, and the items assigned to them.
Members == {g \in DOMAIN groups : Ancestry(g) \cap NamedRoots # {}}
MemberItems == UNION {Range(groups[g].types) : g \in Members}

MinOf(a, b) == IF a <= b THEN a ELSE b

\* C8: with a root found, discovery returns the items of the member
\* categories in strictly ascending order, all of them when there are at
\* most MAX_TYPES and the MAX_TYPES smallest otherwise; the scenario graph
\* {100: root, 101: child of 100 with [34, 35]} gives [34, 35].
C8_SortedCappedUnion ==
    (res_pc = "returned" /\ NamedRoots # {}) =>
      /\ \A i \in 1..(Len(type_id_list) - 1) : type_id_list[i] < type_id_list[i + 1]
      /\ Len(type_id_list) = MinOf(Cardinality(MemberItems), MAX_TYPES)
      /\ Range(type_id_list) \subseteq MemberItems
      /\ \A x \in MemberItems \ Range(type_id_list) :
            \A y \in Range(type_id_list) : y < x
      /\ groups = ScenarioGraph => type_id_list = <<34, 35>>

\* More member items than MAX_TYPES, from two member categories that share
\* an item: the list is cut.
C8_Witness ==
    /\ res_pc = "returned"
    /\ NamedRoots # {}
    /\ Cardinality(MemberItems) > MAX_TYPES
    /\ Len(type_id_list) = MAX_TYPES
    /\ \E g, h \in Members :
         g # h /\ Range(groups[g].types) \cap Range(groups[h].types) # {}

\* The scenario graph resolved.
C8_Scenario ==
    /\ res_pc = "returned"
    /\ groups = ScenarioGraph
    /\ type_id_list = <<34, 35>>

\* C9: when no loaded category carries a configured root name, discovery
\* returns the empty list and main() can only abort: the history loop is
\* never entered, no history is requested and no row is written.
C9_NoRootAborts ==
    ((res_pc = "returned" \/ run_pc = "aborted") /\ NamedRoots = {}) =>
      /\ type_id_list = <<>>
      /\ run_pc \in {"resolve", "aborted"}
      /\ run_pc = "resolve" => (ENABLED MainAbort /\ ~ENABLED MainCollect)
      /\ col_pc = "idle"
      /\ attempted = <<>>
      /\ table = {}

\* A run aborted over loaded categories that carry items but no root name.
C9_Witness ==
    /\ run_pc = "aborted"
    /\ res_pc = "returned"
    /\ NamedRoots = {}
    /\ \E g \in DOMAIN groups : groups[g].types # <<>>
    /\ attempted = <<>>

-----------------------------------------------------------------------------
(***************************************************************************)
(* Properties of the history loop                                          *)
(***************************************************************************)
\* The pairs in the order of the nested loops: region by region, the types
\* in list order within each.
RECURSIVE PairsOf(_, _)
PairsOf(regions, types) ==
    IF regions = <<>> THEN <<>>
    ELSE [i \in 1..Len(types) |-> <<Head(regions), types[i]>>]
         \o PairsOf(Tail(regions), types)

\* The rows a stored batch leaves for its pair: per date, its last entry.
RowsOf(pair, history) ==
    {Row(pair[1], pair[2], history[i]) :
       i \in {j \in DOMAIN history :
                \A k \in DOMAIN history :
                   history[k].date = history[j].date => k <= j}}

-----------------------------------------------------------------------------
(***************************************************************************)
(* Properties of the traffic with the remote API                           *)
(***************************************************************************)
\* The positions of the wire holding a call that returned a response.
Successes == {i \in DOMAIN wire : wire[i].kind # "sleep" /\ wire[i].ok}

\* i and j are consecutive successful requests.
Consecutive(i, j) ==
    /\ i \in Successes /\ j \in Successes /\ i < j
    /\ \A k \in Successes : ~(i < k /\ k < j)

\* A pacing sleep of the caller lies between positions i and j.
PacedBetween(i, j) ==
    \E k \in DOMAIN wire : i < k /\ k < j /\ wire[k].kind = "sleep"

\* C11: between any two consecutive successful requests of a run (listing
\* pages, category details, price histories) the program performs a pacing
\* sleep of its own, apart from any retry backoff.
C11_PacedRequests ==
    \A i, j \in DOMAIN wire : Consecutive(i, j) => PacedBetween(i, j)

-----------------------------------------------------------------------------
(***************************************************************************)
(* Properties of the classifier                                            *)
(***************************************************************************)
SameSeries(a, b) == a.region_id = b.region_id /\ a.type_id = b.type_id

RowsIn(frame) == {frame[i] : i \in DOMAIN frame}

\* A feature row without the ranking columns of the legacy variant.
Unscored(row) == [f \in DOMAIN row \ {"abs_z", "score"} |-> row[f]]

\* The row of the latest date of each series of the feature table.
MaxDateRows ==
    {r \in RowsIn(df_features) :
       \A q \in RowsIn(df_features) : SameSeries(q, r) => q.date <= r.date}

FullStat(r) ==
    /\ r.rolling_mean.kind # "nan"
    /\ r.rolling_std.kind # "nan"
    /\ r.z_score.kind # "nan"

MinusThreshold == Neg(Squared(zscore_threshold))

BuyExpected ==
    {r \in MaxDateRows : FullStat(r) /\ ~Lt(MinusThreshold, r.z_score)}
SellExpected ==
    {r \in MaxDateRows : FullStat(r) /\ ~Lt(r.z_score, Squared(zscore_threshold))}

\* The list holds exactly the rows of S, once each.
ListsExactly(list, S) ==
    /\ Len(list) = Cardinality(S)
    /\ {Unscored(list[i]) : i \in DOMAIN list} = S

NoSeriesInBoth ==
    \A i \in DOMAIN df_buy, j \in DOMAIN df_sell : ~SameSeries(df_buy[i], df_sell[j])

\* C12 as stated: whatever the feature table and the threshold, no series
\* has a row in both lists returned by split_buy_sell_opportunities.
C12_NeverBothAnyThreshold == ana_pc = "split" => NoSeriesInBoth

\* C12, amended: for a threshold above zero, no series has a row in both
\* lists returned by split_buy_sell_opportunities.
C12_NeverBothPositive ==
    (ana_pc = "split" /\ zscore_threshold.sgn > 0) => NoSeriesInBoth

\* A split at a positive threshold that fills both lists.
C12_Witness ==
    /\ ana_pc = "split"
    /\ zscore_threshold.sgn > 0
    /\ df_buy # <<>>
    /\ df_sell # <<>>
    /\ NoSeriesInBoth

\* C13: the BUY list (of either variant) holds exactly the latest-date row
\* of every series whose latest-date row has all three statistics and a
\* z_score at or below minus the threshold, once each; the SELL list the
\* same for a z_score at or above the threshold.  A series whose latest row
\* lacks a statistic is in neither list.
C13_LatestRowDecides ==
    /\ ana_pc \in {"buy", "top", "split"} => ListsExactly(df_buy, BuyExpected)
    /\ ana_pc = "split" => ListsExactly(df_sell, SellExpected)

\* A classification that lists one series and leaves out another whose
\* latest row lacks a statistic although an earlier row of it is at or
\* below minus the threshold.
C13_Witness ==
    /\ ana_pc = "split"
    /\ zscore_threshold.sgn > 0
    /\ df_buy # <<>>
    /\ \E r \in MaxDateRows :
         /\ ~FullStat(r)
         /\ \A i \in DOMAIN df_buy : ~SameSeries(df_buy[i], r)
         /\ \E q \in RowsIn(df_features) :
              /\ SameSeries(q, r)
              /\ q.date < r.date
              /\ FullStat(q)
              /\ ~Lt(MinusThreshold, q.z_score)

\* Rows b after a in the list.
Ordered(list, InOrder(_, _)) ==
    \A i, j \in DOMAIN list : i < j => InOrder(list[i], list[j])

\* a may stand before b: its z_score is not above b's, and when the two are
\* equal its volume is not below b's (a NULL volume standing last).
ByDeviationThenVolume(a, b) ==
    /\ ~Lt(b.z_score, a.z_score)
    /\ ~Lt(a.z_score, b.z_score) =>
         \/ b.volume = None
         \/ (a.volume # None /\ a.volume >= b.volume)

\* C17: the list find_buy_opportunities returns is in ascending z_score
\* order, rows of equal z_score in descending volume order; it holds every
\* qualifying series, and it is main() that cuts it to the first TOP_N rows.
C17_RankedFullList ==
    /\ ana_pc \in {"buy", "top"} =>
         /\ Ordered(df_buy, ByDeviationThenVolume)
         /\ Len(df_buy) = Cardinality(BuyExpected)
    /\ ana_pc = "buy" => df_buy_top = <<>>
    /\ ana_pc = "top" =>
         /\ Len(df_buy_top) = (IF Len(df_buy) < TOP_N THEN Len(df_buy) ELSE TOP_N)
         /\ \A i \in DOMAIN df_buy_top : df_buy_top[i] = df_buy[i]

\* A ranked list longer than the cut, two rows of which tie on the z_score
\* and differ in volume.
C17_Witness ==
    /\ ana_pc = "top"
    /\ Len(df_buy) > Len(df_buy_top)
    /\ df_buy[1].z_score = df_buy[2].z_score
    /\ df_buy[1].volume > df_buy[2].volume
    /\ df_buy[2].volume # None

-----------------------------------------------------------------------------
(***************************************************************************)
(* Properties of the feature engine                                        *)
(***************************************************************************)
\* The stored columns of a feature row.
Stored(row) ==
    [f \in {"region_id", "type_id", "date", "order_count", "volume",
            "highest", "lowest", "average"} |-> row[f]]

\* The rows of the history table in the trailing window of r: the rows of
\* r's series dated at or before r, fewer than rolling_window rows of the
\* series lying between them and r.
TrailingWindow(r) ==
    {q \in RowsIn(df) :
       /\ SameSeries(q, r)
       /\ q.date <= r.date
       /\ Cardinality({p \in RowsIn(df) :
             SameSeries(p, r) /\ q.date < p.date /\ p.date <= r.date})
            < rolling_window}

Observations(r) == {q \in TrailingWindow(r) : q.average # None}

NoFeature(row) ==
    /\ row.rolling_mean.kind = "nan"
    /\ row.rolling_std.kind = "nan"
    /\ row.z_score.kind = "nan"
    /\ row.upper_band.kind = "nan"
    /\ row.lower_band.kind = "nan"

\* The feature table has one row per row of the history table.
Featured ==
    /\ ana_pc \notin {"idle", "loaded", "done"}
    /\ Len(df_features) = Len(df)
    /\ {Stored(df_features[i]) : i \in DOMAIN df_features} = RowsIn(df)

C15_TooFewObservations ==
    ana_pc \notin {"idle", "loaded", "done"} =>
      /\ Len(df_features) = Len(df)
      /\ \A i \in DOMAIN df_features :
           Cardinality(Observations(Stored(df_features[i]))) < MIN_PERIODS
              => NoFeature(df_features[i])

\* A feature table with a row whose window holds 5 rows but only 4 averages,
\* and a row of the same series that has its features.
C15_Witness ==
    /\ Featured
    /\ \E i, j \in DOMAIN df_features :
         /\ Cardinality(TrailingWindow(Stored(df_features[i]))) >= MIN_PERIODS
         /\ Cardinality(Observations(Stored(df_features[i]))) < MIN_PERIODS
         /\ NoFeature(df_features[i])
         /\ SameSeries(df_features[i], df_features[j])
         /\ ~NoFeature(df_features[j])

\* The features the engine computes for r from the table that holds the
\* trailing window of r and nothing else.
FromWindowAlone(r) ==
    LET window == TrailingWindow(r)
        in_window(q) == q \in window
        alone == compute_time_series_features(SelectSeq(df, in_window),
                                              rolling_window)
    IN {alone[i] : i \in {j \in DOMAIN alone : Stored(alone[j]) = r}}

\* C16: the features of a row are those computed from its trailing window
\* alone: other series, later rows, rows older than the window and the
\* order of the input rows have no part in them.
C16_WindowAlone ==
    ana_pc = "features" =>
      \A i \in DOMAIN df_features :
         FromWindowAlone(Stored(df_features[i])) = {df_features[i]}

\* A feature table computed from unsorted input with another series of the
\* same item, in which a row with features has a later row and a row with
\* features has a row older than its window.
C16_Witness ==
    /\ ana_pc = "features"
    /\ Featured
    /\ \E i, j \in DOMAIN df : i < j /\ KeyDateLess(df[j], df[i])
    /\ \E i \in DOMAIN df_features :
         LET r == df_features[i]
         IN /\ ~NoFeature(r)
            /\ \E q \in RowsIn(df) : q.type_id = r.type_id /\ ~SameSeries(q, r)
            /\ \E q \in RowsIn(df) : SameSeries(q, r) /\ q.date > r.date
    /\ \E i \in DOMAIN df_features :
         LET r == df_features[i]
         IN /\ ~NoFeature(r)
            /\ \E q \in RowsIn(df) :
                 SameSeries(q, r) /\ q.date < r.date /\ q \notin TrailingWindow(r)

-----------------------------------------------------------------------------
(***************************************************************************)
(* Properties of the query                                                 *)
(***************************************************************************)
\* The stored row of the latest date of its item.
LatestOfItem(r) ==
    /\ r \in table
    /\ \A q \in table : q.type_id = r.type_id => q.date <= r.date

-----------------------------------------------------------------------------
(***************************************************************************)
(* Properties of the name cache                                            *)
(***************************************************************************)
\* The remote item-detail lookups made for an item.
NameLookups(t) == {i \in DOMAIN wire : wire[i].kind = "name" /\ wire[i].arg = t}

\* C19: a get_type_name call looks the name up remotely exactly when the
\* cache holds no entry for the id, so at most once per id; after a call the
\* cache holds an entry for the id (the placeholder type_id_<id> when the
\* lookup failed) and every call for the id has returned that entry.
C19_LookupOncePerId ==
    /\ \A i \in DOMAIN name_calls : name_calls[i].looked_up <=> ~name_calls[i].held
    /\ \A t \in NameIds : Cardinality(NameLookups(t)) <= 1
    /\ \A t \in NameIds :
          Cardinality(NameLookups(t)) =
             Cardinality({i \in DOMAIN name_calls :
                            name_calls[i].type_id = t /\ name_calls[i].looked_up})
    /\ \A i \in DOMAIN name_calls :
          /\ name_calls[i].type_id \in DOMAIN type_names
          /\ name_calls[i].name = type_names[name_calls[i].type_id]
    /\ \A i \in DOMAIN wire :
          (wire[i].kind = "name" /\ ~wire[i].ok)
             => type_names[wire[i].arg] = Placeholder(wire[i].arg)

\* An item whose only lookup failed and that was asked for twice more, and
\* an item whose lookup gave its name.
C19_Witness ==
    /\ \E t \in NameIds :
         /\ \E i \in NameLookups(t) : ~wire[i].ok
         /\ Cardinality({i \in DOMAIN name_calls : name_calls[i].type_id = t}) >= 3
         /\ type_names[t] = Placeholder(t)
    /\ \E t \in NameIds :
         /\ t \in DOMAIN type_names
         /\ type_names[t] \in RemoteNames(t)

-----------------------------------------------------------------------------
(***************************************************************************)
(* Properties of the category listing                                      *)
(***************************************************************************)
IsListing(event) == event.kind = "list"

\* The listing requests of the run, in the order they were made.
ListRequests == SelectSeq(wire, IsListing)

\* The answer to the request for page p ends the listing.
Stops(event, p) ==
    \/ ~event.ok
    \/ event.chunk = <<>>
    \/ event.x_pages = None
    \/ p >= event.x_pages

RECURSIVE ChunksUpTo(_, _)
ChunksUpTo(requests, n) ==
    IF n = 0 THEN <<>> ELSE ChunksUpTo(requests, n - 1) \o requests[n].chunk

ListingIsOver == run_pc # "list"

\* C20: the listing requests of a run are for pages 1, 2, 3, ... in that
\* order; a request is followed by another only if it succeeded with a
\* non-empty chunk and a page count above its page number, and the listing
\* is over exactly after the first request that did not; the ids returned
\* are the chunks received, joined in page order; when every request
\* succeeded with a non-empty chunk and the same page count P, the pages
\* requested are exactly 1..P.
C20_PagesInOrderUntilStop ==
    LET requests == ListRequests
        n == Len(requests)
    IN /\ \A i \in 1..n : requests[i].arg = i
       /\ \A i \in 1..n : i < n => ~Stops(requests[i], i)
       /\ ~ListingIsOver => /\ page = n + 1
                            /\ n > 0 => ~Stops(requests[n], n)
                            /\ group_ids = ChunksUpTo(requests, n)
       /\ ListingIsOver =>
            /\ n > 0
            /\ Stops(requests[n], n)
            /\ group_ids = ChunksUpTo(requests, n)
            /\ \A P \in 1..(NumPages + 1) :
                  (\A i \in 1..n : /\ requests[i].ok
                                   /\ requests[i].chunk # <<>>
                                   /\ requests[i].x_pages = P)
                     => n = P

\* A listing of two full pages under a constant page count of 2, and over.
C20_Witness ==
    LET requests == ListRequests
    IN /\ ListingIsOver
       /\ Len(requests) = 2
       /\ \A i \in 1..2 : /\ requests[i].ok
                          /\ requests[i].chunk # <<>>
                          /\ requests[i].x_pages = 2
       /\ Len(group_ids) = Len(requests[1].chunk) + Len(requests[2].chunk)
       /\ Len(group_ids) > PageSize

-----------------------------------------------------------------------------
(***************************************************************************)
(* Properties of the detail loop of discovery                              *)
(***************************************************************************)
IsDetail(event) == event.kind = "detail"

\* The detail requests of the run, in the order they were made.
DetailRequests == SelectSeq(wire, IsDetail)

DetailArgs == [i \in 1..Len(DetailRequests) |-> DetailRequests[i].arg]

\* The categories whose detail fetch failed, and those whose fetch succeeded.
FailedDetails == {DetailRequests[i].arg : i \in {j \in 1..Len(DetailRequests) : ~DetailRequests[j].ok}}
LoadedDetails == {DetailRequests[i].arg : i \in {j \in 1..Len(DetailRequests) : DetailRequests[j].ok}}

-----------------------------------------------------------------------------
(***************************************************************************)
(* Properties of the backoff of esi_get                                    *)
(***************************************************************************)
\* C22: within one esi_get call the delay slept after failed attempt n+1 is
\* strictly greater than the delay slept after failed attempt n, whatever
\* mix of network exceptions and retryable statuses the attempts met.
C22_BackoffIncreases ==
    \A n \in 1..(Len(esi_sleeps) - 1) : esi_sleeps[n + 1] > esi_sleeps[n]

\* Attempt n met a retryable status and attempt n+1 a network exception.
StatusThenException(n) == ~esi_outcomes[n].exc /\ esi_outcomes[n + 1].exc

\* C22: the delay slept after failed attempt n is n times the base delay of
\* the failure met, 2 s for a network exception and 5 s for a retryable
\* status; it is strictly greater after attempt n+1 than after attempt n
\* unless attempt n met a retryable status and attempt n+1 an exception.
C22_BackoffLinearPerClass ==
    /\ \A n \in DOMAIN esi_sleeps :
          esi_sleeps[n] = IF esi_outcomes[n].exc THEN 2 * n ELSE 5 * n
    /\ \A n \in 1..(Len(esi_sleeps) - 1) :
          ~StatusThenException(n) => esi_sleeps[n + 1] > esi_sleeps[n]

\* A call whose three attempts met an exception, a retryable status and an
\* exception: the delay rose, then fell.
C22_Witness ==
    /\ esi_pc = "returned"
    /\ Len(esi_sleeps) = MAX_RETRIES
    /\ esi_outcomes[1].exc /\ ~esi_outcomes[2].exc /\ esi_outcomes[3].exc
    /\ esi_sleeps[2] > esi_sleeps[1]
    /\ esi_sleeps[3] < esi_sleeps[2]

-----------------------------------------------------------------------------
(***************************************************************************)
(* Properties of an iteration of the history loop without data             *)
(***************************************************************************)
\* What fetch_market_history gave for the pair of the latest iteration.
LatestFetch == fetched[Len(fetched)]

AbsentKinds == {"none", "malformed", "empty"}

\* C23: an iteration of collect_and_store_all_history whose fetch gave no
\* response, a payload that is not a list, or an empty list, does not call
\* store_market_history and leaves the store as it was.
C23_AbsentDataNotStored ==
    [][(/\ Len(fetched') = Len(fetched) + 1
        /\ fetched'[Len(fetched')].kind \in AbsentKinds)
          => /\ table' = table
             /\ last_written' = last_written
             /\ last_call' = last_call]_vars

\* After a pair was stored, the three kinds of absent data were met in
\* turn; the store still holds the rows of the stored pair and its latest
\* call is the one for that pair.
C23_Witness ==
    /\ Len(fetched) = 4
    /\ fetched[1].kind = "list"
    /\ {fetched[i].kind : i \in 2..4} = AbsentKinds
    /\ LatestFetch.kind \in AbsentKinds
    /\ table = RowsOf(attempted[1], fetched[1].history)
    /\ last_call.type_id = attempted[1][2]
    /\ last_call.history = fetched[1].history

-----------------------------------------------------------------------------
(***************************************************************************)
(* Properties of the alternate ranking                                     *)
(***************************************************************************)
\* The volume of a row, a missing one counting as zero.
VolumeOrZero(row) == IF row.volume = None THEN 0 ELSE row.volume

\* |z_score(a)| * sqrt(volume(a)) >= |z_score(b)| * sqrt(volume(b)) for
\* finite z-scores, compared by the squares of the two sides; a z_score is
\* held by its sign and its square n/d.
ScoreNotBelow(a, b) ==
    /\ a.z_score.kind = "fin"
    /\ b.z_score.kind = "fin"
    /\ a.z_score.n * VolumeOrZero(a) * b.z_score.d
          >= b.z_score.n * VolumeOrZero(b) * a.z_score.d

\* C24: in each list split_buy_sell_opportunities returns, a row standing
\* before another has an alternate score |z_score| * sqrt(volume) that is
\* not below the other's, a missing volume counting as zero.
C24_ScoreDescending ==
    ana_pc = "split" =>
        /\ Ordered(df_buy, ScoreNotBelow)
        /\ Ordered(df_sell, ScoreNotBelow)

\* A list of two rows of different scores, the second without a volume,
\* that the feature table holds in the other order.
C24_Witness ==
    /\ ana_pc = "split"
    /\ \E list \in {df_buy, df_sell} :
         /\ Len(list) = 2
         /\ list[1].volume # None
         /\ list[2].volume = None
         /\ list[1].z_score.sgn # 0
         /\ ~ScoreNotBelow(list[2], list[1])
         /\ \E i, j \in DOMAIN df_features :
              /\ i < j
              /\ Unscored(list[2]) = df_features[i]
              /\ Unscored(list[1]) = df_features[j]

-----------------------------------------------------------------------------
(***************************************************************************)
(* Properties of a walk over a graph with a category missing               *)
(***************************************************************************)
\* The parent chain from c, followed over the loaded links, comes to an id
\* the loaded graph does not hold.
RECURSIVE PassesMissing(_, _)
PassesMissing(c, visited) ==
    IF c = None \/ c \in visited THEN FALSE
    ELSE IF c \notin DOMAIN groups THEN TRUE
    ELSE PassesMissing(groups[c].parent_id, visited \cup {c})

\* The same, with no root category on the chain before the missing id.
RECURSIVE MissingBeforeRoot(_, _)
MissingBeforeRoot(c, visited) ==
    IF c = None \/ c \in visited THEN FALSE
    ELSE IF c \notin DOMAIN groups THEN TRUE
    ELSE IF c \in root_ids THEN FALSE
    ELSE MissingBeforeRoot(groups[c].parent_id, visited \cup {c})

\* In the remote hierarchy a category of a root name lies on the parent
\* chain from c.
RECURSIVE RemoteRootAbove(_, _)
RemoteRootAbove(c, visited) ==
    IF c = None \/ c \in visited \/ c \notin DOMAIN remote THEN FALSE
    ELSE IF remote[c].name \in TARGET_MARKET_GROUP_ROOT_NAMES THEN TRUE
    ELSE RemoteRootAbove(remote[c].parent_id, visited \cup {c})

\* The categories a finished walk started from.
Walked == DOMAIN cache_is_target

\* C25: a category whose parent chain passes through a category missing
\* from the loaded graph is reported non-member.
C25_MissingAncestorNonMember ==
    \A g \in Walked : PassesMissing(g, {}) => ~cache_is_target[g]

\* C25: a category whose parent chain comes to a category missing from the
\* loaded graph before it comes to a root category is reported non-member,
\* and every item id of the result is carried by a category whose chain
\* does not.
C25_MissingBeforeRootNonMember ==
    /\ \A g \in Walked : MissingBeforeRoot(g, {}) => ~cache_is_target[g]
    /\ \A t \in type_ids :
          \E g \in DOMAIN groups :
             /\ ~MissingBeforeRoot(g, {})
             /\ t \in Range(groups[g].types)

\* A finished discovery in which a category was walked whose parent failed
\* to load while a root category lies above it in the remote hierarchy; it
\* is cached non-member and an item of its own is not in the result, which
\* holds items of another category.
C25_Witness ==
    /\ run_pc = "resolve"
    /\ res_pc = "returned"
    /\ type_ids # {}
    /\ \E g \in Walked :
         /\ MissingBeforeRoot(g, {})
         /\ groups[g].parent_id \in FailedDetails
         /\ RemoteRootAbove(g, {})
         /\ ~cache_is_target[g]
         /\ \E t \in Range(groups[g].types) : t \notin type_ids

-----------------------------------------------------------------------------
(***************************************************************************)
(* Properties of the membership cache                                      *)
(***************************************************************************)
\* What a walk from c over the loaded graph returns when nothing is cached.
RECURSIVE UncachedWalk(_, _)
UncachedWalk(c, visited) ==
    IF c = None \/ c \notin DOMAIN groups \/ c \in visited THEN FALSE
    ELSE IF c \in root_ids THEN TRUE
    ELSE UncachedWalk(groups[c].parent_id, visited \cup {c})

\* The calls made for gid before call i.
EarlierQueries(i, gid) == {j \in 1..(i - 1) : queries[j].gid = gid}

\* The cache and the answers so far.
CacheFaithful ==
    /\ \A g \in DOMAIN cache_is_target :
          /\ \E i \in DOMAIN queries : queries[i].gid = g /\ ~queries[i].hit
          /\ cache_is_target[g] = UncachedWalk(g, {})
    /\ \A i \in DOMAIN queries :
          /\ queries[i].gid \in DOMAIN cache_is_target
          /\ queries[i].result = cache_is_target[queries[i].gid]
          /\ queries[i].hit <=> EarlierQueries(i, queries[i].gid) # {}
          /\ queries[i].hit => queries[i].links = 0

\* A step writes the cache only for the id its walk started from and only
\* when that id has no entry; a call answered from the cache touches neither
\* the cache nor the walk.
CacheStep ==
    /\ \A g \in DOMAIN cache_is_target :
          g \in DOMAIN cache_is_target' /\ cache_is_target'[g] = cache_is_target[g]
    /\ DOMAIN cache_is_target' \ DOMAIN cache_is_target \subseteq {walk_gid}
    /\ (Len(queries') > Len(queries) /\ queries'[Len(queries')].hit)
          => UNCHANGED <<cache_is_target, walk_gid, current, seen, walk_steps>>

\* C26: the membership cache receives an entry only for the id a walk
\* started from, an entry written is never changed, every cached value is
\* what an uncached walk from that id returns, and a repeated call for a
\* cached id is answered from the cache without a step of the walk.
C26_CacheWriteOnce == [](CacheFaithful) /\ [][CacheStep]_vars

\* A call that walked a link up to a root, a repeated call for the same id
\* answered from the cache, and a call for a loaded category whose walk
\* found no root.
C26_Witness ==
    /\ Len(queries) = MaxQueries
    /\ \E i, j, k \in DOMAIN queries :
         /\ i < j
         /\ queries[i].gid = queries[j].gid
         /\ ~queries[i].hit /\ queries[i].result /\ queries[i].links >= 1
         /\ queries[j].hit /\ queries[j].result
         /\ ~queries[k].hit /\ ~queries[k].result
         /\ queries[k].gid \in DOMAIN groups

=============================================================================
